---- MODULE Spec2Model ----
(***************************************************************************)
(* SmartSpend: the debt payoff simulator (simulateDebtPayoff).             *)
(*                                                                         *)
(* Money is counted in units of half a currency unit, so that the 0.5      *)
(* threshold of the source is the integer Half and every amount the model  *)
(* uses is exactly representable as a JavaScript number.  The interest     *)
(* rates of the model (12 and 24 percent) are rates for which the          *)
(* floating-point product balance * monthlyRate rounds as the exact        *)
(* product does.                                                           *)
(***************************************************************************)
EXTENDS Integers, Sequences, FiniteSets, TLC

VARIABLES
  debts,                  \* the caller's Debt[] argument
  options,                \* the caller's DebtPayoffSimulationOptions
  pc,                     \* "call" | "loop" | "minimum" | "rollover" | "done"
  calls,                  \* how many calls of simulateDebtPayoff have started
  firstResult,            \* the result of the first call, once a second one started
  thrown,                 \* TRUE iff the call ended by an exception
  scheduled,              \* SimDebt[]: the working copy
  monthlyPrincipalBudget,
  perDebtResult,
  perDebtInterest,
  totalInterestPaid,
  months,
  remainingPrincipal,
  result,                 \* the returned DebtPayoffSimulationResult, None before
  transactions,           \* the stored Transaction[]
  clock,                  \* the instant it is now
  patterns,               \* the stored HabitPattern[]
  habitStates,            \* the stored Record<string, HabitReminderState>
  reminder,               \* Some(what findDueHabitReminder returned), None before
  stored,                 \* the Transaction[] of localStorage under STORAGE_KEY
  saving,                 \* the calls of saveTransaction, in the order they began
  supabase                \* TRUE iff the supabase client is configured

debtVars == <<debts, options, pc, calls, firstResult, thrown, scheduled,
              monthlyPrincipalBudget, perDebtResult, perDebtInterest,
              totalInterestPaid, months, remainingPrincipal, result>>

habitVars == <<transactions, clock, patterns, habitStates, reminder>>

storeVars == <<stored, saving, supabase>>

vars == <<debtVars, habitVars, storeVars>>

-----------------------------------------------------------------------------
(* Bounds of the model *)

MaxDebts == 2
MaxCap == 2

-----------------------------------------------------------------------------
(* Values *)

Half == 1
Unit == Half + Half
Money(n) == n * Unit

DefaultMaxMonths == 600

None == <<>>
Some(v) == <<v>>
OrElse(x, d) == IF x = None THEN d ELSE x[1]

Max(a, b) == IF a >= b THEN a ELSE b
Min(a, b) == IF a <= b THEN a ELSE b
Min3(a, b, c) == Min(a, Min(b, c))

EmptyMap == [k \in {} |-> 0]

WarnSetPayments == "Set monthly payments to project payoff"
WarnTooLong == "Payment plan too long; increase payments"

-----------------------------------------------------------------------------
(* Dates: a local date-time [y, m, d, min], m counted from 0 as Date does *)

IsLeap(y) == (y % 4 = 0 /\ y % 100 # 0) \/ y % 400 = 0

DaysInMonth(y, m) ==
  IF m = 1 THEN (IF IsLeap(y) THEN 29 ELSE 28)
  ELSE IF m \in {3, 5, 8, 10} THEN 30 ELSE 31

\* new Date(year, month + months, day): the month carries into the year, a
\* day past the end of the month carries into the next month, time is 00:00
addMonths(base, n) ==
  LET total == base.y * 12 + base.m + n
      dim == DaysInMonth(total \div 12, total % 12)
  IN IF base.d <= dim
       THEN [y |-> total \div 12, m |-> total % 12, d |-> base.d, min |-> 0]
       ELSE [y |-> (total + 1) \div 12, m |-> (total + 1) % 12,
             d |-> base.d - dim, min |-> 0]

payoffMonthToDateUnshifted(startDate, payoffMonth) ==
  addMonths(startDate, Max(0, payoffMonth))

payoffMonthToDate(startDate, payoffMonth) ==
  addMonths(startDate, Max(0, payoffMonth - 1))

\* toLocaleDateString('default', {month: 'long', year: 'numeric'})
DateLabel(date) == [y |-> date.y, m |-> date.m]

-----------------------------------------------------------------------------
(* Options *)

MaxMonthsOf(opts) == OrElse(opts.maxMonths, DefaultMaxMonths)

ExtraUnclamped(opts) == OrElse(opts.extraPrincipalBudget, 0)

ExtraOf(opts) == Max(0, OrElse(opts.extraPrincipalBudget, 0))

\* minPaymentFallback is modelled as a function that returns one amount
MinFallbackOf(opts, d) == OrElse(opts.minPaymentFallback, 0)

-----------------------------------------------------------------------------
(* The ids of the debts and their lexicographic order *)

IdNames == <<"a", "b", "c", "d">>

IdRank(id) == CHOOSE i \in 1..Len(IdNames) : IdNames[i] = id

localeCompare(a, b) ==
  IF IdRank(a) < IdRank(b) THEN -1 ELSE IF IdRank(a) > IdRank(b) THEN 1 ELSE 0

-----------------------------------------------------------------------------
(* scheduled: filter + map *)

EntersThoughPaid(d) == d.type = "payable" /\ d.amount > 0

Enters(d) == d.type = "payable" /\ ~d.isPaid /\ d.amount > 0

SimDebtOf(d, opts) ==
  [id |-> d.id,
   balance |-> d.amount,
   rate |-> OrElse(d.interestRate, 0),
   minPay |-> Max(0, OrElse(d.minimumPayment, MinFallbackOf(opts, d))),
   dueDate |-> d.dueDate]

Schedule(ds, opts) ==
  LET kept == SelectSeq(ds, Enters)
  IN [i \in 1..Len(kept) |-> SimDebtOf(kept[i], opts)]

\* the SimDebt objects are fresh objects: a write to one of them is no write
\* to the caller's Debt of the same id
CallerDebtsAliased(ds, sch) ==
  [i \in 1..Len(ds) |->
     IF \E j \in 1..Len(sch) : sch[j].id = ds[i].id
       THEN [ds[i] EXCEPT !.amount =
               sch[CHOOSE j \in 1..Len(sch) : sch[j].id = ds[i].id].balance]
       ELSE ds[i]]

CallerDebts(ds, sch) == ds

RECURSIVE SumMinPay(_)
SumMinPay(sch) ==
  IF sch = <<>> THEN 0 ELSE sch[1].minPay + SumMinPay(Tail(sch))

baseMinTotal(sch) == SumMinPay(sch)

BudgetFlipped(sch, opts) == baseMinTotal(sch) - ExtraOf(opts)

Budget(sch, opts) == baseMinTotal(sch) + ExtraOf(opts)

\* if (monthlyPrincipalBudget <= 0) return the configuration warning
NoBudgetStrict(budget) == budget < 0

NoBudget(budget) == budget <= 0

Active(d) == d.balance > Half

SomeActive(sch) == \E i \in 1..Len(sch) : Active(sch[i])

-----------------------------------------------------------------------------
(* The month loop.  A simulation state s is the record of the loop's locals *)
(* [scheduled, months, remainingPrincipal, perDebtResult, perDebtInterest,  *)
(*  totalInterestPaid]; c is the record of what the loop reads and never    *)
(* writes: [budget, strategy, startDate, maxMonths].                         *)

LoopCondUncapped(s, c) == SomeActive(s.scheduled)

LoopCond(s, c) == s.months < c.maxMonths /\ SomeActive(s.scheduled)

\* Math.round(d.balance * monthlyRate), monthlyRate = (d.rate / 100) / 12
Interest(d) ==
  IF d.rate > 0
    THEN Unit * ((2 * d.balance * d.rate + Unit * 100 * 12)
                   \div (2 * Unit * 100 * 12))
    ELSE 0

\* the interest of the first debt alone
SumInterestHead(sch) ==
  IF sch = <<>> THEN 0
  ELSE IF Active(sch[1]) THEN Interest(sch[1]) ELSE 0

RECURSIVE SumInterest(_)
SumInterest(sch) ==
  IF sch = <<>> THEN 0
  ELSE (IF Active(sch[1]) THEN Interest(sch[1]) ELSE 0) + SumInterest(Tail(sch))

\* a month started with the interest of each debt added to its balance
StartMonthCapitalizing(s, c) ==
  [s EXCEPT
     !.months = s.months + 1,
     !.remainingPrincipal = c.budget,
     !.scheduled =
        [i \in 1..Len(s.scheduled) |->
           [s.scheduled[i] EXCEPT
              !.balance = @ + (IF Active(s.scheduled[i])
                                 THEN Interest(s.scheduled[i]) ELSE 0)]],
     !.totalInterestPaid = s.totalInterestPaid + SumInterest(s.scheduled)]

\* months++, remainingPrincipal = monthlyPrincipalBudget, the interest loop
StartMonth(s, c) ==
  [s EXCEPT
     !.months = s.months + 1,
     !.remainingPrincipal = c.budget,
     !.perDebtInterest =
        [id \in DOMAIN s.perDebtInterest |->
           LET i == CHOOSE j \in 1..Len(s.scheduled) : s.scheduled[j].id = id
           IN s.perDebtInterest[id]
                + (IF Active(s.scheduled[i]) THEN Interest(s.scheduled[i]) ELSE 0)],
     !.totalInterestPaid = s.totalInterestPaid + SumInterest(s.scheduled)]

\* the payoff recorded with the count of the months before
RecordPayoffZeroBased(per, d, s, c) ==
  IF d.balance <= Half /\ d.id \notin DOMAIN per
    THEN (d.id :> [payoffMonth |-> s.months - 1,
                   payoffDate |-> payoffMonthToDate(c.startDate, s.months),
                   totalInterestPaid |-> s.perDebtInterest[d.id]]) @@ per
    ELSE per

\* if (d.balance <= 0.5 && !perDebtResult[d.id]) perDebtResult[d.id] = {...}
RecordPayoff(per, d, s, c) ==
  IF d.balance <= Half /\ d.id \notin DOMAIN per
    THEN (d.id :> [payoffMonth |-> s.months,
                   payoffDate |-> payoffMonthToDate(c.startDate, s.months),
                   totalInterestPaid |-> s.perDebtInterest[d.id]]) @@ per
    ELSE per

PayMinimumWholeBalance(s, i, c) ==
  LET d == s.scheduled[i]
      pay == Min(d.balance, s.remainingPrincipal)
      paid == [d EXCEPT !.balance = d.balance - pay]
  IN [s EXCEPT
        !.scheduled[i] = paid,
        !.remainingPrincipal = s.remainingPrincipal - pay,
        !.perDebtResult = RecordPayoff(s.perDebtResult, paid, s, c)]

\* one debt of the minimum loop, after its two guards
PayMinimum(s, i, c) ==
  LET d == s.scheduled[i]
      pay == Min3(d.minPay, d.balance, s.remainingPrincipal)
      paid == [d EXCEPT !.balance = d.balance - pay]
  IN [s EXCEPT
        !.scheduled[i] = paid,
        !.remainingPrincipal = s.remainingPrincipal - pay,
        !.perDebtResult = RecordPayoff(s.perDebtResult, paid, s, c)]

\* the loop left after the first payment
RECURSIVE MinimumLoopOnePayment(_, _, _)
MinimumLoopOnePayment(s, i, c) ==
  IF i > Len(s.scheduled) THEN s
  ELSE IF ~Active(s.scheduled[i]) THEN MinimumLoopOnePayment(s, i + 1, c)
  ELSE IF s.remainingPrincipal <= 0 THEN s
  ELSE PayMinimum(s, i, c)

\* for (const d of scheduled) { continue if paid; break if no budget; pay }
RECURSIVE MinimumLoop(_, _, _)
MinimumLoop(s, i, c) ==
  IF i > Len(s.scheduled) THEN s
  ELSE IF ~Active(s.scheduled[i]) THEN MinimumLoop(s, i + 1, c)
  ELSE IF s.remainingPrincipal <= 0 THEN s
  ELSE MinimumLoop(PayMinimum(s, i, c), i + 1, c)

\* the minimum payments made, no payoff entered
MinimumStepUnrecorded(s, c) ==
  [MinimumLoop(s, 1, c) EXCEPT !.perDebtResult = s.perDebtResult]

MinimumStep(s, c) == MinimumLoop(s, 1, c)

CompareByBalance(strategy, a, b) ==
  IF strategy \in {"avalanche", "snowball"} THEN a.balance - b.balance
  ELSE IF a.dueDate # b.dueDate
         THEN (IF a.dueDate = None THEN 1
               ELSE IF b.dueDate = None THEN -1
               ELSE a.dueDate[1] - b.dueDate[1])
         ELSE localeCompare(a.id, b.id)

\* getOrderComparator(strategy)(a, b)
Compare(strategy, a, b) ==
  IF strategy = "avalanche" THEN b.rate - a.rate
  ELSE IF strategy = "snowball" THEN a.balance - b.balance
  ELSE IF a.dueDate # b.dueDate
         THEN (IF a.dueDate = None THEN 1
               ELSE IF b.dueDate = None THEN -1
               ELSE a.dueDate[1] - b.dueDate[1])
         ELSE localeCompare(a.id, b.id)

\* the stable Array.prototype.sort, on the indices of the debts: x goes
\* before the first element that compares greater than it
RECURSIVE InsertSorted(_, _, _, _)
InsertSorted(x, sorted, sch, strategy) ==
  IF sorted = <<>> THEN <<x>>
  ELSE IF Compare(strategy, sch[Head(sorted)], sch[x]) > 0 THEN <<x>> \o sorted
  ELSE <<Head(sorted)>> \o InsertSorted(x, Tail(sorted), sch, strategy)

RECURSIVE SortIndices(_, _, _)
SortIndices(idx, sch, strategy) ==
  IF idx = <<>> THEN <<>>
  ELSE InsertSorted(idx[Len(idx)],
                    SortIndices(SubSeq(idx, 1, Len(idx) - 1), sch, strategy),
                    sch, strategy)

ActiveIndices(sch) ==
  SelectSeq([i \in 1..Len(sch) |-> i], LAMBDA i : Active(sch[i]))

\* the active debts in the order of the list
OrderedAsGiven(sch, strategy) == ActiveIndices(sch)

\* [...scheduled].filter((d) => d.balance > 0.5).sort(comparator)
Ordered(sch, strategy) == SortIndices(ActiveIndices(sch), sch, strategy)

\* the debt paid whole, whatever is left of the budget
PayRolloverWholeBalance(s, i, c) ==
  LET d == s.scheduled[i]
      paid == [d EXCEPT !.balance = 0]
  IN [s EXCEPT
        !.scheduled[i] = paid,
        !.remainingPrincipal = s.remainingPrincipal - d.balance,
        !.perDebtResult = RecordPayoff(s.perDebtResult, paid, s, c)]

PayRollover(s, i, c) ==
  LET d == s.scheduled[i]
      pay == Min(d.balance, s.remainingPrincipal)
      paid == [d EXCEPT !.balance = d.balance - pay]
  IN [s EXCEPT
        !.scheduled[i] = paid,
        !.remainingPrincipal = s.remainingPrincipal - pay,
        !.perDebtResult = RecordPayoff(s.perDebtResult, paid, s, c)]

RECURSIVE RolloverLoop(_, _, _)
RolloverLoop(s, ordered, c) ==
  IF ordered = <<>> THEN s
  ELSE IF s.remainingPrincipal <= 0 THEN s
  ELSE RolloverLoop(PayRollover(s, Head(ordered), c), Tail(ordered), c)

\* a month without rollover
RolloverStepSkipped(s, c) == s

RolloverStep(s, c) ==
  IF s.remainingPrincipal > Half
    THEN RolloverLoop(s, Ordered(s.scheduled, c.strategy), c)
    ELSE s

-----------------------------------------------------------------------------
(* The three returns *)

EmptyResult(startDate) ==
  [warning |-> None,
   months |-> Some(0),
   payoffDate |-> Some(startDate),
   payoffDateLabel |-> Some(DateLabel(startDate)),
   monthlyPrincipalBudget |-> 0,
   totalInterestPaid |-> 0,
   perDebt |-> EmptyMap]

NoBudgetResult ==
  [warning |-> Some(WarnSetPayments),
   months |-> None,
   payoffDate |-> None,
   payoffDateLabel |-> None,
   monthlyPrincipalBudget |-> 0,
   totalInterestPaid |-> 0,
   perDebt |-> EmptyMap]

FinalResultWithoutPartials(s, c) ==
  IF SomeActive(s.scheduled)
    THEN [warning |-> Some(WarnTooLong),
          months |-> None,
          payoffDate |-> None,
          payoffDateLabel |-> None,
          monthlyPrincipalBudget |-> 0,
          totalInterestPaid |-> 0,
          perDebt |-> EmptyMap]
    ELSE [warning |-> None,
          months |-> Some(s.months),
          payoffDate |-> Some(payoffMonthToDate(c.startDate, s.months)),
          payoffDateLabel |->
             Some(DateLabel(payoffMonthToDate(c.startDate, s.months))),
          monthlyPrincipalBudget |-> c.budget,
          totalInterestPaid |-> s.totalInterestPaid,
          perDebt |-> s.perDebtResult]

FinalResult(s, c) ==
  IF SomeActive(s.scheduled)
    THEN [warning |-> Some(WarnTooLong),
          months |-> None,
          payoffDate |-> None,
          payoffDateLabel |-> None,
          monthlyPrincipalBudget |-> c.budget,
          totalInterestPaid |-> s.totalInterestPaid,
          perDebt |-> s.perDebtResult]
    ELSE [warning |-> None,
          months |-> Some(s.months),
          payoffDate |-> Some(payoffMonthToDate(c.startDate, s.months)),
          payoffDateLabel |->
             Some(DateLabel(payoffMonthToDate(c.startDate, s.months))),
          monthlyPrincipalBudget |-> c.budget,
          totalInterestPaid |-> s.totalInterestPaid,
          perDebt |-> s.perDebtResult]

\* the loop's locals as they are when the loop is entered
EnterLoop(sch) ==
  [scheduled |-> sch,
   months |-> 0,
   remainingPrincipal |-> 0,
   perDebtResult |-> EmptyMap,
   perDebtInterest |-> [id \in {sch[i].id : i \in 1..Len(sch)} |-> 0],
   totalInterestPaid |-> 0]

ContextOf(sch, opts) ==
  [budget |-> Budget(sch, opts),
   strategy |-> opts.strategy,
   startDate |-> opts.startDate,
   maxMonths |-> MaxMonthsOf(opts)]

RECURSIVE RunLoop(_, _)
RunLoop(s, c) ==
  IF LoopCond(s, c)
    THEN RunLoop(RolloverStep(MinimumStep(StartMonth(s, c), c), c), c)
    ELSE s

\* simulateDebtPayoff(debts, options) as a function of its arguments
simulateDebtPayoff(ds, opts) ==
  LET sch == Schedule(ds, opts)
      c == ContextOf(sch, opts)
  IN IF Len(sch) = 0 THEN EmptyResult(opts.startDate)
     ELSE IF NoBudget(c.budget) THEN NoBudgetResult
     ELSE FinalResult(RunLoop(EnterLoop(sch), c), c)

-----------------------------------------------------------------------------
(* The calls the model makes *)

Strategies == {"avalanche", "snowball", "dueDate"}

Jan31 == [y |-> 2024, m |-> 0, d |-> 31, min |-> 600]
Dec15 == [y |-> 2023, m |-> 11, d |-> 15, min |-> 0]

\* debts that differ in balance, and in having a rate and a minimum payment
MoneyShapes ==
  [type : {"payable"}, isPaid : {FALSE},
   amount : {Half, Money(200), Money(300)},
   interestRate : {None}, minimumPayment : {None}, dueDate : {None}]
  \cup
  [type : {"payable"}, isPaid : {FALSE},
   amount : {Half, Money(200), Money(300)},
   interestRate : {Some(24)}, minimumPayment : {Some(Money(100))}, dueDate : {None}]

\* debts that do not enter the simulation, and two that do
EdgeShapes ==
  [type : {"receivable"}, isPaid : {FALSE}, amount : {Money(200)},
   interestRate : {Some(24)}, minimumPayment : {Some(Money(100))}, dueDate : {None}]
  \cup
  [type : {"payable"}, isPaid : {TRUE}, amount : {Money(200)},
   interestRate : {Some(24)}, minimumPayment : {Some(Money(100))}, dueDate : {None}]
  \cup
  [type : {"payable"}, isPaid : {FALSE}, amount : {0, Money(-50)},
   interestRate : {Some(24)}, minimumPayment : {Some(Money(100))}, dueDate : {None}]
  \cup
  [type : {"payable"}, isPaid : {FALSE}, amount : {Money(200)},
   interestRate : {Some(24)}, minimumPayment : {None, Some(Money(-100))},
   dueDate : {None}]

\* debts that differ in due date, some owing less than their minimum payment
DueShapes ==
  [type : {"payable"}, isPaid : {FALSE},
   amount : {Money(50), Money(300)},
   interestRate : {Some(12)},
   minimumPayment : {Some(Money(100))},
   dueDate : {None, Some(1), Some(2)}]

ListsOver(S) == UNION {[1..n -> S] : n \in 0..MaxDebts}

WithId(shape, id) ==
  [id |-> id, type |-> shape.type, isPaid |-> shape.isPaid,
   amount |-> shape.amount, interestRate |-> shape.interestRate,
   minimumPayment |-> shape.minimumPayment, dueDate |-> shape.dueDate]

Ascending(l) == [i \in 1..Len(l) |-> WithId(l[i], IdNames[i])]
Descending(l) == [i \in 1..Len(l) |-> WithId(l[i], IdNames[Len(l) + 1 - i])]

MoneyOptions ==
  [strategy : Strategies,
   extraPrincipalBudget : {None, Some(Money(50)), Some(Money(100))},
   startDate : {Jan31},
   maxMonths : {None, Some(MaxCap)},
   minPaymentFallback : {None}]

EdgeOptions ==
  [strategy : {"avalanche", "snowball"},
   extraPrincipalBudget : {None, Some(Money(-50)), Some(Money(50))},
   startDate : {Jan31, Dec15},
   maxMonths : {None, Some(-1), Some(0)},
   minPaymentFallback : {None, Some(Money(100))}]

DueOptions ==
  [strategy : {"snowball", "dueDate"},
   extraPrincipalBudget : {None, Some(Money(50))},
   startDate : {Dec15},
   maxMonths : {None},
   minPaymentFallback : {None}]

-----------------------------------------------------------------------------
(* Habit detection and reminders (services/storageService.ts).             *)
(*                                                                         *)
(* A text is a sequence of one-character strings over printable ASCII.     *)
(* An instant is a whole number of minutes of local time counted from      *)
(* 2023-01-01 00:00, a Sunday; the local zone has no change of offset.     *)
(* A nullable value is None or Some(v).                                    *)

\* the characters of the model's texts
UpperCase ==
  <<"A", "B", "C", "D", "E", "F", "G", "H", "I", "J", "K", "L", "M",
    "N", "O", "P", "Q", "R", "S", "T", "U", "V", "W", "X", "Y", "Z">>

LowerCase ==
  <<"a", "b", "c", "d", "e", "f", "g", "h", "i", "j", "k", "l", "m",
    "n", "o", "p", "q", "r", "s", "t", "u", "v", "w", "x", "y", "z">>

Digits ==
  <<"0", "1", "2", "3", "4", "5", "6", "7", "8", "9">>

IndexIn(row, c) == CHOOSE i \in 1..Len(row) : row[i] = c
Chars(row) == {row[i] : i \in 1..Len(row)}

\* s.charCodeAt(i)
charCodeAt ==
  [c \in Chars(UpperCase) \cup Chars(LowerCase) \cup Chars(Digits)
           \cup {" ", "#", "(", ")", "|"} |->
     IF c \in Chars(UpperCase) THEN 64 + IndexIn(UpperCase, c)
     ELSE IF c \in Chars(LowerCase) THEN 96 + IndexIn(LowerCase, c)
     ELSE IF c \in Chars(Digits) THEN 47 + IndexIn(Digits, c)
     ELSE IF c = " " THEN 32
     ELSE IF c = "#" THEN 35
     ELSE IF c = "(" THEN 40
     ELSE IF c = ")" THEN 41
     ELSE 124]

toLowerCase(s) ==
  [i \in 1..Len(s) |->
     IF s[i] \in Chars(UpperCase) THEN LowerCase[IndexIn(UpperCase, s[i])]
     ELSE s[i]]

RecurringMarker == <<"(", "r", "e", "c", "u", "r", "r", "i", "n", "g", ")">>

\* .replace(/\(recurring\)/g, '')
RECURSIVE StripRecurring(_)
StripRecurring(s) ==
  IF Len(s) < Len(RecurringMarker) THEN s
  ELSE IF SubSeq(s, 1, Len(RecurringMarker)) = RecurringMarker
    THEN StripRecurring(SubSeq(s, Len(RecurringMarker) + 1, Len(s)))
    ELSE <<s[1]>> \o StripRecurring(Tail(s))

\* .replace(/[^a-z\u3040-\u30ff\u4e00-\u9faf\s]/g, ' ') on ASCII text
BlankOthers(s) ==
  [i \in 1..Len(s) |->
     IF s[i] \in Chars(LowerCase) \/ s[i] = " " THEN s[i] ELSE " "]

\* .replace(/\s+/g, ' ')
RECURSIVE CollapseSpaces(_)
CollapseSpaces(s) ==
  IF Len(s) < 2 THEN s
  ELSE IF s[1] = " " /\ s[2] = " " THEN CollapseSpaces(Tail(s))
  ELSE <<s[1]>> \o CollapseSpaces(Tail(s))

\* .trim()
Trim(s) ==
  LET inked == {i \in 1..Len(s) : s[i] # " "}
      first == CHOOSE i \in inked : \A j \in inked : i <= j
      last == CHOOSE i \in inked : \A j \in inked : i >= j
  IN IF inked = {} THEN <<>> ELSE SubSeq(s, first, last)

normalizeText(s) ==
  Trim(CollapseSpaces(BlankOthers(StripRecurring(toLowerCase(s)))))

\* s.split(' '): the pieces between the blanks, empty pieces included
RECURSIVE SplitAcc(_, _)
SplitAcc(s, piece) ==
  IF s = <<>> THEN <<piece>>
  ELSE IF s[1] = " " THEN <<piece>> \o SplitAcc(Tail(s), <<>>)
  ELSE SplitAcc(Tail(s), Append(piece, s[1]))

Split(s) == SplitAcc(s, <<>>)

RECURSIVE Join(_, _)
Join(pieces, sep) ==
  IF pieces = <<>> THEN <<>>
  ELSE IF Len(pieces) = 1 THEN pieces[1]
  ELSE pieces[1] \o sep \o Join(Tail(pieces), sep)

StopWords ==
  {<<"b", "u", "y">>,
   <<"p", "a", "i", "d">>,
   <<"p", "a", "y", "m", "e", "n", "t">>,
   <<"f", "e", "e">>,
   <<"t", "a", "x">>,
   <<"c", "a", "r", "d">>,
   <<"c", "a", "s", "h">>,
   <<"f", "o", "r">>,
   <<"t", "o">>,
   <<"a", "t">>,
   <<"i", "n">>}

merchantKeyFromDescription(description) ==
  LET KeyOf(chosen) == IF Len(chosen) >= 3 THEN Some(chosen) ELSE None
      Chosen(source) == Join(SubSeq(source, 1, Min(2, Len(source))), <<" ">>)
      Source(parts, filtered) == IF filtered # <<>> THEN filtered ELSE parts
      FromParts(parts) ==
        IF parts = <<>> THEN None
        ELSE KeyOf(Chosen(Source(parts,
                                 SelectSeq(parts, LAMBDA p : p \notin StopWords))))
      FromText(normalized) ==
        IF normalized = <<>> THEN None
        ELSE FromParts(SelectSeq(Split(normalized), LAMBDA p : p # <<>>))
  IN FromText(normalizeText(description))

\* the shapes of the transactions of the model
Shapes ==
  [coffee |->
     [category |-> "Food", type |-> "expense", amount |-> 500,
      description |-> <<"S", "t", "a", "r", "b", "u", "c", "k", "s", " ",
                        "C", "o", "f", "f", "e", "e">>],
   receipt |->
     [category |-> "Food", type |-> "expense", amount |-> 650,
      description |-> <<"S", "T", "A", "R", "B", "U", "C", "K", "S", " ", " ",
                        "c", "o", "f", "f", "e", "e", " ", "#", "1", "2">>],
   gym |->
     [category |-> "Health", type |-> "expense", amount |-> 8000,
      description |-> <<"(", "R", "e", "c", "u", "r", "r", "i", "n", "g", ")", " ",
                        "G", "y", "m">>],
   fare |->
     [category |-> "Transport", type |-> "expense", amount |-> 220,
      description |-> <<>>],
   numbered |->
     [category |-> "Transport", type |-> "expense", amount |-> 180,
      description |-> <<"#", "1", "2">>]]

\* merchantKeyFromDescription on the descriptions of the model, computed once
MerchantKeys ==
  [d \in {Shapes[n].description : n \in DOMAIN Shapes} |->
     merchantKeyFromDescription(d)]

\* Math.round(p / q) for q > 0: halves round up
RoundDiv(p, q) == (2 * p + q) \div (2 * q)

Abs(n) == IF n < 0 THEN 0 - n ELSE n

amountBucket(amount) ==
  LET a == Abs(amount)
  IN IF a < 5000 THEN RoundDiv(a, 100) * 100
     ELSE IF a < 20000 THEN RoundDiv(a, 500) * 500
     ELSE RoundDiv(a, 1000) * 1000

\* a 32-bit word is the pair <<high 16 bits, low 16 bits>>
Word16 == 65536

RECURSIVE Xor(_, _)
Xor(a, b) ==
  IF a = 0 THEN b
  ELSE IF b = 0 THEN a
  ELSE (((a % 2) + (b % 2)) % 2) + 2 * Xor(a \div 2, b \div 2)

\* h = (h * 33) ^ s.charCodeAt(i), on 32 bits
HashStep(h, c) ==
  LET low == h[2] * 33
      high == (h[1] * 33 + low \div Word16) % Word16
  IN <<high, Xor(low % Word16, charCodeAt[c])>>

RECURSIVE HashFrom(_, _)
HashFrom(h, s) == IF s = <<>> THEN h ELSE HashFrom(HashStep(h, s[1]), Tail(s))

\* (h >>> 0).toString(36)
RECURSIVE toString36(_)
toString36(h) ==
  LET mid == (h[1] % 36) * Word16 + h[2]
      rest == <<h[1] \div 36, mid \div 36>>
      digit == <<(Digits \o LowerCase)[(mid % 36) + 1]>>
  IN IF rest = <<0, 0>> THEN digit ELSE toString36(rest) \o digit

HashSeed == 5381

stableHash(s) == toString36(HashFrom(<<0, HashSeed>>, s))

\* String(n) of a whole number n >= 0
RECURSIVE Decimal(_)
Decimal(n) ==
  IF n < 10 THEN <<Digits[n + 1]>> ELSE Decimal(n \div 10) \o <<Digits[(n % 10) + 1]>>

\* the values of the Category enum the model uses
CategoryText ==
  [Food |-> <<"F", "o", "o", "d">>,
   Transport |-> <<"T", "r", "a", "n", "s", "p", "o", "r", "t">>,
   Health |-> <<"H", "e", "a", "l", "t", "h">>,
   Debt |-> <<"D", "e", "b", "t">>,
   Savings |-> <<"S", "a", "v", "i", "n", "g", "s">>,
   Salary |-> <<"S", "a", "l", "a", "r", "y">>]

habitIdFor(category, merchantKey, bucket) ==
  stableHash(Join(<<CategoryText[category],
                    OrElse(merchantKey, <<>>),
                    IF bucket = None THEN <<>> ELSE Decimal(bucket[1])>>,
                  <<"|">>))

-----------------------------------------------------------------------------
(* Instants, local calendar *)

DayMinutes == 24 * 60

\* a date string that new Date() cannot parse gives an invalid Date
NaN == None
Days(n) == n * DayMinutes

DayIndex(t) == t \div DayMinutes
startOfDay(t) == Days(DayIndex(t))
diffDays(a, b) == DayIndex(a) - DayIndex(b)
minutesFromMidnight(t) == t % DayMinutes

\* Date.getDay(): 0 is Sunday
getDay(t) == DayIndex(t) % 7

RECURSIVE CivilFrom(_, _, _)
CivilFrom(y, m, n) ==
  IF n < DaysInMonth(y, m) THEN [y |-> y, m |-> m, d |-> n + 1]
  ELSE CivilFrom(IF m = 11 THEN y + 1 ELSE y, (m + 1) % 12, n - DaysInMonth(y, m))

\* d.toLocaleDateString('en-CA'): YYYY-MM-DD, as the triple it spells
toLocalISODate(t) == CivilFrom(2023, 0, DayIndex(t))

\* a > b on two YYYY-MM-DD strings
DateStringGT(a, b) ==
  \/ a.y > b.y
  \/ a.y = b.y /\ a.m > b.m
  \/ a.y = b.y /\ a.m = b.m /\ a.d > b.d

\* a >= b on two YYYY-MM-DD strings: character by character
DateStringGE(a, b) ==
  \/ a.y > b.y
  \/ a.y = b.y /\ a.m > b.m
  \/ a.y = b.y /\ a.m = b.m /\ a.d >= b.d

getDate(t) == toLocalISODate(t).d

startOfMonth(t) == startOfDay(t) - Days(getDate(t) - 1)

\* a week that starts on Sunday
startOfWeekSunday(t) == startOfDay(t) - Days(getDay(t))

startOfWeek(t) ==
  LET day == getDay(t)
      diff == IF day = 0 THEN 0 - 6 ELSE 1 - day
  IN startOfDay(t) + Days(diff)

clamp(n, lo, hi) == Max(lo, Min(hi, n))

-----------------------------------------------------------------------------
(* Statistics.  A median is returned doubled, a quartile fourfold, so that *)
(* the halves and quarters of the source stay whole numbers.               *)

\* the item goes before the keys that are not smaller
RECURSIVE InsertByKeyLast(_, _)
InsertByKeyLast(sorted, item) ==
  IF sorted = <<>> THEN <<item>>
  ELSE IF item.key <= sorted[1].key THEN <<item>> \o sorted
  ELSE <<sorted[1]>> \o InsertByKeyLast(Tail(sorted), item)

\* where the item of key goes among the keys in order: after the keys that
\* are not greater, as a stable sort places it
RECURSIVE InsertByKey(_, _)
InsertByKey(sorted, item) ==
  IF sorted = <<>> THEN <<item>>
  ELSE IF item.key < sorted[1].key THEN <<item>> \o sorted
  ELSE <<sorted[1]>> \o InsertByKey(Tail(sorted), item)

\* Array.prototype.sort on items [key, value] by ascending key
RECURSIVE SortByKey(_)
SortByKey(items) ==
  IF items = <<>> THEN <<>>
  ELSE InsertByKey(SortByKey(SubSeq(items, 1, Len(items) - 1)), items[Len(items)])

\* [...nums].sort((a, b) => a - b)
SortAsc(nums) ==
  LET Values(sorted) == [i \in 1..Len(sorted) |-> sorted[i].value]
  IN Values(SortByKey([i \in 1..Len(nums) |-> [key |-> nums[i], value |-> nums[i]]]))

\* 2 * median(nums)
median2(nums) ==
  LET Middle(sorted, mid) ==
        IF Len(sorted) % 2 = 1 THEN 2 * sorted[mid + 1]
        ELSE sorted[mid] + sorted[mid + 1]
  IN IF nums = <<>> THEN 0 ELSE Middle(SortAsc(nums), Len(nums) \div 2)

\* 4 * mad(nums), None for null
mad4(nums) ==
  LET Deviations2(m2) == [i \in 1..Len(nums) |-> Abs(2 * nums[i] - m2)]
  IN IF Len(nums) < 3 THEN None ELSE Some(median2(Deviations2(median2(nums))))

\* 4 * quantile(nums, quarters / 4)
quantile4(nums, quarters) ==
  LET Between(sorted, base, rest4) ==
        IF base + 2 > Len(sorted) THEN 4 * sorted[base + 1]
        ELSE 4 * sorted[base + 1] + rest4 * (sorted[base + 2] - sorted[base + 1])
      Pos(sorted, pos4) == Between(sorted, pos4 \div 4, pos4 % 4)
  IN IF nums = <<>> THEN 0
     ELSE Pos(SortAsc(nums), (Len(nums) - 1) * clamp(quarters, 0, 4))

-----------------------------------------------------------------------------
(* buildHabitPatterns.  A probability p of dowProb is the whole number     *)
(* p * ProbScale: weeksObserved is 8 in every call, a zone without change  *)
(* of offset given, so that every count / weeksObserved is a multiple of   *)
(* 1 / ProbScale, and so are the thresholds and the boosts of the score.   *)

HistoryDays == 180
ScheduleDays == 56
MinGroupSize == 3
ProbScale == 40

\* lines 330-335: the filter of recent
IsRecent(t, now) ==
  /\ t.type = "expense"
  /\ t.category \notin {"Debt", "Savings"}
  /\ t.date # NaN
  /\ t.date[1] >= now - Days(HistoryDays)

CriterionBoth(tx) ==
  [merchantKey |-> MerchantKeys[tx.description],
   bucket |-> Some(amountBucket(tx.amount))]

\* lines 340-341 and 408-409: merchant key first, else the amount bucket
CriterionOf(tx) ==
  LET Criterion(merchantKey) ==
        [merchantKey |-> merchantKey,
         bucket |-> IF merchantKey # None THEN None
                    ELSE Some(amountBucket(tx.amount))]
  IN Criterion(MerchantKeys[tx.description])

GroupIdByAmount(tx) ==
  habitIdFor(tx.category, None, Some(amountBucket(tx.amount)))

\* line 342
GroupIdOf(tx) ==
  LET IdOf(c) == habitIdFor(tx.category, c.merchantKey, c.bucket)
  IN IdOf(CriterionOf(tx))

\* [...list].sort by date, a stable sort
SortByDate(list) ==
  LET Values(sorted) == [i \in 1..Len(sorted) |-> sorted[i].value]
  IN Values(SortByKey([i \in 1..Len(list) |->
                         [key |-> list[i].date[1], value |-> list[i]]]))

\* lines 361-367
Gaps(byDate) ==
  SelectSeq([i \in 1..(Len(byDate) - 1) |->
               Abs(diffDays(byDate[i + 1].date[1], byDate[i].date[1]))],
            LAMBDA gap : gap > 0)

\* weekly only on a median of seven days
IntervalTypeOfSevenOnly(intervalDaysMedian) ==
  IF intervalDaysMedian = None THEN "unknown"
  ELSE IF intervalDaysMedian[1] <= 2 THEN "daily"
  ELSE IF intervalDaysMedian[1] = 7 THEN "weekly"
  ELSE IF Abs(intervalDaysMedian[1] - 30) <= 5 THEN "monthly"
  ELSE "unknown"

\* lines 369-374
IntervalTypeOf(intervalDaysMedian) ==
  IF intervalDaysMedian = None THEN "unknown"
  ELSE IF intervalDaysMedian[1] <= 2 THEN "daily"
  ELSE IF Abs(intervalDaysMedian[1] - 7) <= 1 THEN "weekly"
  ELSE IF Abs(intervalDaysMedian[1] - 30) <= 5 THEN "monthly"
  ELSE "unknown"

\* lines 350, 377-383: entry i is the probability of weekday i - 1
DowProb(byDate, now) ==
  [i \in 1..7 |->
     LET weeksObserved ==
           Max(1, (diffDays(now, now - Days(ScheduleDays)) + 6) \div 7)
         count == Len(SelectSeq(byDate, LAMBDA t :
                        /\ t.date[1] >= now - Days(ScheduleDays)
                        /\ getDay(t.date[1]) = i - 1))
     IN clamp((count * ProbScale) \div weeksObserved, 0, ProbScale)]

\* lines 386-392
TimeSamples(byDate, now) ==
  LET Minutes(timed) ==
        [i \in 1..Len(timed) |-> minutesFromMidnight(timed[i].created_at[1])]
  IN Minutes(SelectSeq(byDate, LAMBDA t :
               /\ t.created_at # None
               /\ t.created_at[1] >= now - Days(ScheduleDays)))

\* lines 393-405
TimeWindow(timeSamples) ==
  LET Window(start, end, mid, narrow) ==
        [start |-> Some(clamp(IF narrow THEN mid - 45 ELSE start, 0, DayMinutes)),
         end |-> Some(clamp(IF narrow THEN mid + 45 ELSE end, 0, DayMinutes))]
      Quartiles(start, end) ==
        Window(start, end, RoundDiv(median2(timeSamples), 2), end - start < 90)
  IN IF Len(timeSamples) < 5 THEN [start |-> None, end |-> None]
     ELSE Quartiles(RoundDiv(quantile4(timeSamples, 1), 4),
                    RoundDiv(quantile4(timeSamples, 3), 4))

\* lines 355-425: the pattern of one group
PatternOf(id, list, now) ==
  LET Pattern(sample, criterion, amounts, amountMad, intervalDaysMedian, window,
              dowProb) ==
        [habitId |-> id,
         category |-> sample.category,
         merchantKey |-> criterion.merchantKey,
         amountBucket |-> criterion.bucket,
         amountMedian |-> RoundDiv(median2(amounts), 2),
         amountMad |-> IF amountMad = None THEN None
                       ELSE Some(RoundDiv(amountMad[1], 4)),
         intervalType |-> IntervalTypeOf(intervalDaysMedian),
         intervalDaysMedian |-> intervalDaysMedian,
         dowProb |-> dowProb,
         timeWindowStartMin |-> window.start,
         timeWindowEndMin |-> window.end,
         active |-> TRUE,
         updatedAt |-> now]
      MedianOf(gaps) ==
        IF gaps # <<>> THEN Some(RoundDiv(median2(gaps), 2)) ELSE None
      WithAmounts(byDate, amounts) ==
        Pattern(byDate[Len(byDate)], CriterionOf(byDate[Len(byDate)]), amounts,
                mad4(amounts), MedianOf(Gaps(byDate)),
                TimeWindow(TimeSamples(byDate, now)), DowProb(byDate, now))
      Sorted(byDate) ==
        WithAmounts(byDate, [i \in 1..Len(byDate) |-> byDate[i].amount])
  IN Sorted(SortByDate(list))

buildHabitPatterns(txs, now) ==
  LET Grouped(recent, ids) ==
        LET GroupAt(i) ==
              LET Members(members) == [k \in 1..Len(members) |-> recent[members[k]]]
              IN Members(SelectSeq([j \in 1..Len(recent) |-> j],
                                   LAMBDA j : ids[j] = ids[i]))
            Emitted(emitted) ==
              [k \in 1..Len(emitted) |->
                 PatternOf(ids[emitted[k]], GroupAt(emitted[k]), now)]
            Firsts(firsts) ==
              Emitted(SelectSeq(firsts, LAMBDA i : Len(GroupAt(i)) >= MinGroupSize))
        IN Firsts(SelectSeq([i \in 1..Len(ids) |-> i],
                            LAMBDA i : \A j \in 1..(i - 1) : ids[j] # ids[i]))
      Recent(recent) ==
        Grouped(recent, [i \in 1..Len(recent) |-> GroupIdOf(recent[i])])
  IN Recent(SelectSeq(txs, LAMBDA t : IsRecent(t, now)))

-----------------------------------------------------------------------------
(* findDueHabitReminder.  The sort of matchingTransactions compares the    *)
(* times of the dates: with an invalid date among the matches the          *)
(* comparison function is not consistent and the order the sort returns is *)
(* left to the implementation.  What the function reads of that order, the *)
(* last match and the median of the last days of month, is then any of the *)
(* values an order can give; the parameter u names the one taken for each  *)
(* pattern: [daysSinceLast, expectedDom], None for null or NaN.            *)

\* lines 442-448
matchesPattern(t, pattern) ==
  /\ t.type = "expense"
  /\ t.category = pattern.category
  /\ IF pattern.merchantKey # None /\ pattern.merchantKey # Some(<<>>)
       THEN MerchantKeys[t.description] = pattern.merchantKey
       ELSE /\ pattern.amountBucket # None
            /\ amountBucket(t.amount) = pattern.amountBucket[1]

Matches(pattern, txs) == SelectSeq(txs, LAMBDA t : matchesPattern(t, pattern))

\* lines 450-453, when every match has a date
matchingTransactions(pattern, txs) == SortByDate(Matches(pattern, txs))

\* lines 455-456
hasMatchingToday(pattern, txs, now) ==
  \E i \in 1..Len(txs) :
     /\ txs[i].date # NaN
     /\ toLocalISODate(txs[i].date[1]) = toLocalISODate(now)
     /\ matchesPattern(txs[i], pattern)

\* lines 484-486: the values daysSinceLast can take
DaysSinceLastChoices(pattern, txs, now) ==
  LET SinceLast(sorted) == Some(diffDays(now, sorted[Len(sorted)].date[1]))
      Choices(found) ==
        IF found = <<>> THEN {None}
        ELSE IF \A i \in 1..Len(found) : found[i].date # NaN
          THEN {SinceLast(matchingTransactions(pattern, txs))}
          ELSE {IF found[i].date = NaN THEN None
                ELSE Some(diffDays(now, found[i].date[1])) : i \in 1..Len(found)}
  IN Choices(Matches(pattern, txs))

\* lines 504-505: the values expectedDom can take
ExpectedDomChoices(pattern, txs) ==
  LET Doms(lastSix) == [i \in 1..Len(lastSix) |-> getDate(lastSix[i].date[1])]
      LastSix(sorted) == SubSeq(sorted, Max(1, Len(sorted) - 5), Len(sorted))
      Choices(found) ==
        IF Len(found) < 3 THEN {Some(1)}
        ELSE IF \A i \in 1..Len(found) : found[i].date # NaN
          THEN {Some(RoundDiv(median2(Doms(LastSix(matchingTransactions(pattern, txs)))),
                              2))}
          ELSE {None} \cup {Some(d) : d \in 1..31}
  IN Choices(Matches(pattern, txs))

\* the unspecified values findDueHabitReminder may read, one per pattern
Unspecified(pats, txs, now) ==
  LET Choices(i) ==
        [daysSinceLast : DaysSinceLastChoices(pats[i], txs, now),
         expectedDom : IF pats[i].intervalType = "monthly"
                         THEN ExpectedDomChoices(pats[i], txs) ELSE {None}]
  IN {u \in [1..Len(pats) -> UNION {Choices(i) : i \in 1..Len(pats)}] :
        \A i \in 1..Len(pats) : u[i] \in Choices(i)}

\* lines 488-497
WeeklyDue(pattern, txs, now, ui) ==
  LET HasThisWeek(found) ==
        \E i \in 1..Len(found) :
           /\ found[i].date # NaN
           /\ found[i].date[1] >= startOfWeek(now)
      expected == OrElse(pattern.intervalDaysMedian, 7)
  IN /\ ~HasThisWeek(Matches(pattern, txs))
     /\ ~(pattern.dowProb[getDay(now) + 1] * 10 < 4 * ProbScale)
     /\ ~(minutesFromMidnight(now) < 12 * 60)
     /\ ui.daysSinceLast # None => ~(ui.daysSinceLast[1] < expected - 1)

\* due on any day of the month
MonthlyDueAnyDay(pattern, txs, now, ui) ==
  LET HasThisMonth(found) ==
        \E i \in 1..Len(found) :
           /\ found[i].date # NaN
           /\ found[i].date[1] >= startOfMonth(now)
  IN /\ ~HasThisMonth(Matches(pattern, txs))
     /\ ~(minutesFromMidnight(now) < 12 * 60)

\* lines 498-508
MonthlyDue(pattern, txs, now, ui) ==
  LET HasThisMonth(found) ==
        \E i \in 1..Len(found) :
           /\ found[i].date # NaN
           /\ found[i].date[1] >= startOfMonth(now)
  IN /\ ~HasThisMonth(Matches(pattern, txs))
     /\ ~(minutesFromMidnight(now) < 12 * 60)
     /\ ui.expectedDom # None =>
          /\ ~(getDate(now) < clamp(ui.expectedDom[1] - 7, 1, 31))
          /\ ~(getDate(now) > clamp(ui.expectedDom[1] + 7, 1, 31))

\* due at any time of a likely weekday
DailyDueAnyTime(pattern, now) ==
  ~(pattern.dowProb[getDay(now) + 1] * 10 < 6 * ProbScale)

\* lines 509-518
DailyDue(pattern, now) ==
  /\ ~(pattern.dowProb[getDay(now) + 1] * 10 < 6 * ProbScale)
  /\ IF pattern.timeWindowEndMin # None
       THEN /\ ~(minutesFromMidnight(now) < pattern.timeWindowStartMin[1])
            /\ ~(minutesFromMidnight(now) > pattern.timeWindowEndMin[1] + 120)
       ELSE ~(minutesFromMidnight(now) < 18 * 60)

\* lines 476-518: the pattern is mapped to a candidate, not to null
Survives(pattern, txs, stateByHabitId, now, ui) ==
  LET state == IF pattern.habitId \in DOMAIN stateByHabitId
                 THEN Some(stateByHabitId[pattern.habitId]) ELSE None
      today == toLocalISODate(now)
  IN /\ ~(/\ state # None
          /\ state[1].snoozedUntil # None
          /\ DateStringGE(state[1].snoozedUntil[1], today))
     /\ ~(state # None /\ state[1].lastRemindedDate = Some(today))
     /\ ~hasMatchingToday(pattern, txs, now)
     /\ IF pattern.intervalType = "weekly" THEN WeeklyDue(pattern, txs, now, ui)
        ELSE IF pattern.intervalType = "monthly" THEN MonthlyDue(pattern, txs, now, ui)
        ELSE DailyDue(pattern, now)

\* lines 468-472, in units of 1 / ProbScale
scorePattern(pattern, now) ==
  pattern.dowProb[getDay(now) + 1]
    + (IF pattern.intervalType = "daily" THEN (2 * ProbScale) \div 10
       ELSE IF pattern.intervalType = "weekly" THEN ProbScale \div 10
       ELSE 0)

\* lines 520-537
CandidateOf(pattern) ==
  [habitId |-> pattern.habitId,
   title |-> "Quick reminder",
   message |-> [category |-> pattern.category,
                merchant |-> pattern.merchantKey,
                intervalHint |-> IF pattern.intervalType = "weekly" THEN "this week"
                                 ELSE IF pattern.intervalType = "monthly" THEN "this month"
                                 ELSE "today"],
   category |-> pattern.category,
   description |-> IF pattern.merchantKey # None /\ pattern.merchantKey # Some(<<>>)
                     THEN pattern.merchantKey[1]
                     ELSE CategoryText[pattern.category],
   amount |-> pattern.amountMedian]

\* lines 474-544
findDueHabitReminder(pats, txs, stateByHabitId, now, u) ==
  LET First(candidates) ==
        IF candidates = <<>> THEN None ELSE Some(candidates[1].value)
      Sorted(kept) ==
        First(SortByKey([k \in 1..Len(kept) |->
                           [key |-> 0 - scorePattern(pats[kept[k]], now),
                            value |-> CandidateOf(pats[kept[k]])]]))
  IN Sorted(SelectSeq([i \in 1..Len(pats) |-> i], LAMBDA i :
              /\ pats[i].active
              /\ Survives(pats[i], txs, stateByHabitId, now, u[i])))

-----------------------------------------------------------------------------
(* The histories the habit engine is run on.  The first now is 10:00 of    *)
(* Sunday 2024-05-12; a habit is a run of visits a week apart that ends on *)
(* that Sunday or on the Sunday before, alone or with the visits of the    *)
(* days after, or of the Wednesdays between.                               *)

MaxVisits == 5

BaseDay == 497

At(dayOffset, minute) == Days(BaseDay + dayOffset) + minute

\* the instants at which the engine is called
Clock ==
  <<At(0, 10 * 60), At(0, 13 * 60), At(0, 19 * 60), At(1, 13 * 60), At(7, 13 * 60)>>

\* a transaction of the shape, dated the instant, saved when it happened or
\* without created_at
Tx(shape, date, stamped) ==
  [id |-> "", amount |-> shape.amount, category |-> shape.category,
   date |-> date, description |-> shape.description, type |-> shape.type,
   created_at |-> IF stamped /\ date # NaN THEN date ELSE None]

\* n visits a week apart, the last one on day last, shapes a and b in turn
Visits(a, b, n, last, minute, stamped) ==
  [k \in 1..n |->
     Tx(IF k % 2 = 1 THEN a ELSE b,
        Some(At(last - 7 * (n - k), minute)), stamped)]

\* what one more transaction of the shape can be
Strays(shape) ==
  {Tx(shape, NaN, FALSE),
   Tx([shape EXCEPT !.amount = 0 - shape.amount], Some(At(-6, 9 * 60)), FALSE),
   Tx([shape EXCEPT !.amount = 0], Some(At(-6, 9 * 60)), FALSE),
   Tx([shape EXCEPT !.type = "income", !.category = "Salary"], Some(At(-6, 9 * 60)), FALSE),
   Tx([shape EXCEPT !.type = "income"], Some(At(-6, 9 * 60)), FALSE),
   Tx([shape EXCEPT !.category = "Debt"], Some(At(-6, 9 * 60)), FALSE),
   Tx([shape EXCEPT !.category = "Savings"], Some(At(-6, 9 * 60)), FALSE),
   Tx(shape, Some(At(0 - HistoryDays - 20, 9 * 60)), FALSE),
   Tx(shape, Some(At(-6, 9 * 60)), FALSE),
   Tx(shape, Some(At(-11, 9 * 60)), FALSE),
   Tx(shape, Some(At(1, 9 * 60)), FALSE)}

\* the stored lists: the coffee habit alone or with one more transaction,
\* the fare habit alone, with one more, with the Mondays after or with the
\* Wednesdays between, two habits in one list, the fare of every Sunday and
\* Monday saved at 08:30 or at 19:45, the gym paid once a month (on
\* the 4th and 5th from January to April, with one more on May 5th or one
\* without a date, or on the 25th from February to April); the ids are the
\* store's
Histories ==
  LET Coffees(n, last) ==
        Visits(Shapes.coffee, Shapes.receipt, n, last, 8 * 60 + 30, FALSE)
      Fares(n, last, stamped) ==
        Visits(Shapes.fare, Shapes.numbered, n, last, 19 * 60 + 30, stamped)
      Mondays(n, last, stamped) ==
        Visits(Shapes.numbered, Shapes.fare, n, last + 1, 7 * 60, stamped)
      Wednesdays(n, last, stamped) ==
        Visits(Shapes.fare, Shapes.fare, n, last - 4, 19 * 60, stamped)
      Gyms(n) == Visits(Shapes.gym, Shapes.gym, n, -7, 18 * 60, FALSE)
      coffee ==
        UNION {{Coffees(n, last)} \cup
               (IF n \in {2, MaxVisits - 1}
                  THEN {Coffees(n, last) \o <<s>> : s \in Strays(Shapes.coffee)}
                         \cup {<<s>> \o Coffees(n, last) :
                                 s \in {Tx(Shapes.coffee, NaN, FALSE),
                                        Tx(Shapes.coffee, Some(At(1, 9 * 60)), FALSE)}}
                  ELSE {})
               : n \in 2..MaxVisits, last \in {-7, 0}}
      fare ==
        UNION {IF n = 2
                 THEN IF stamped \/ last = 0 THEN {}
                      ELSE {Fares(n, last, stamped) \o <<s>> : s \in Strays(Shapes.fare)}
                 ELSE {Fares(n, last, stamped),
                       SortByDate(Fares(n, last, stamped) \o Mondays(n, last, stamped)),
                       SortByDate(Fares(n, last, stamped) \o Wednesdays(n, last, stamped))}
               : n \in {2, 3, MaxVisits}, last \in {-7, 0}, stamped \in BOOLEAN}
      daily == SortByDate(Fares(MaxVisits, -7, TRUE) \o Mondays(MaxVisits, -7, TRUE))
      Timed(minute) ==
        SortByDate(Visits(Shapes.fare, Shapes.numbered, MaxVisits, -7, minute, TRUE)
                     \o Visits(Shapes.numbered, Shapes.fare, MaxVisits, -6, minute, TRUE))
      timed == {Timed(8 * 60 + 30), Timed(19 * 60 + 45)}
      Monthlies(days) ==
        [k \in 1..Len(days) |-> Tx(Shapes.gym, Some(At(days[k], 18 * 60)), FALSE)]
      monthly ==
        {Monthlies(<<-129, -98, -68, -37>>), Monthlies(<<-98, -68, -37>>),
         Monthlies(<<-98, -68, -37, -7>>), Monthlies(<<-77, -48, -17>>),
         Monthlies(<<-98, -68, -37>>) \o <<Tx(Shapes.gym, NaN, FALSE)>>}
      pairs ==
        UNION {{Coffees(n, -7) \o Gyms(k), Gyms(k) \o Coffees(n, -7),
                SortByDate(Coffees(n, -7) \o Gyms(k)),
                daily \o Coffees(n, -7), Gyms(k) \o daily}
               : n \in {MaxVisits - 1, MaxVisits}, k \in {MaxVisits - 1, MaxVisits}}
  IN {[i \in 1..Len(h) |-> [h[i] EXCEPT !.id = "t" \o ToString(i)]] :
        h \in coffee \cup fare \cup pairs \cup timed \cup monthly}

\* what saveHabitReminderState is given for the habit of a reminder shown
\* on the day today: reminded, or put off until a day
StatesOn(habitId, today, tomorrow) ==
  {[habitId |-> habitId, lastRemindedDate |-> Some(today), snoozedUntil |-> None,
    dismissCountRecent |-> 0],
   [habitId |-> habitId, lastRemindedDate |-> None, snoozedUntil |-> Some(today),
    dismissCountRecent |-> 1],
   [habitId |-> habitId, lastRemindedDate |-> None, snoozedUntil |-> Some(tomorrow),
    dismissCountRecent |-> 1]}

-----------------------------------------------------------------------------
(* The state machine: one call of simulateDebtPayoff, then a second call   *)
(* with the same arguments                                                  *)

Locals ==
  [scheduled |-> scheduled,
   months |-> months,
   remainingPrincipal |-> remainingPrincipal,
   perDebtResult |-> perDebtResult,
   perDebtInterest |-> perDebtInterest,
   totalInterestPaid |-> totalInterestPaid]

Context ==
  [budget |-> monthlyPrincipalBudget,
   strategy |-> options.strategy,
   startDate |-> options.startDate,
   maxMonths |-> MaxMonthsOf(options)]

Install(s) ==
  /\ scheduled' = s.scheduled
  /\ months' = s.months
  /\ remainingPrincipal' = s.remainingPrincipal
  /\ perDebtResult' = s.perDebtResult
  /\ perDebtInterest' = s.perDebtInterest
  /\ totalInterestPaid' = s.totalInterestPaid
  /\ debts' = CallerDebts(debts, s.scheduled)

Init ==
  /\ transactions = <<>>
  /\ clock = Clock[1]
  /\ patterns = <<>>
  /\ habitStates = EmptyMap
  /\ reminder = None
  /\ \/ \E l \in ListsOver(MoneyShapes), o \in MoneyOptions :
           debts = Ascending(l) /\ options = o
     \/ \E l \in ListsOver(EdgeShapes), o \in EdgeOptions :
           debts = Ascending(l) /\ options = o
     \/ \E l \in ListsOver(DueShapes), o \in DueOptions :
           /\ debts \in {Ascending(l), Descending(l)}
           /\ options = o
  /\ pc = "call"
  /\ calls = 0
  /\ firstResult = None
  /\ thrown = FALSE
  /\ scheduled = <<>>
  /\ monthlyPrincipalBudget = 0
  /\ perDebtResult = EmptyMap
  /\ perDebtInterest = EmptyMap
  /\ totalInterestPaid = 0
  /\ months = 0
  /\ remainingPrincipal = 0
  /\ result = None
  /\ stored = <<>>
  /\ saving = <<>>
  /\ supabase = FALSE

\* lines 57-104: the arguments, scheduled, the two early returns
Call ==
  /\ pc = "call"
  /\ calls' = calls + 1
  /\ thrown' = FALSE
  /\ LET sch == Schedule(debts, options)
         c == ContextOf(sch, options)
     IN /\ Install(EnterLoop(sch))
        /\ IF Len(sch) = 0
             THEN /\ result' = Some(EmptyResult(options.startDate))
                  /\ monthlyPrincipalBudget' = 0
                  /\ pc' = "done"
             ELSE IF NoBudget(c.budget)
               THEN /\ result' = Some(NoBudgetResult)
                    /\ monthlyPrincipalBudget' = c.budget
                    /\ pc' = "done"
               ELSE /\ result' = None
                    /\ monthlyPrincipalBudget' = c.budget
                    /\ pc' = "loop"
  /\ UNCHANGED <<options, firstResult>>
  /\ UNCHANGED habitVars
  /\ UNCHANGED storeVars

\* lines 107-118
BeginMonth ==
  /\ pc = "loop"
  /\ LoopCond(Locals, Context)
  /\ Install(StartMonth(Locals, Context))
  /\ pc' = "minimum"
  /\ UNCHANGED <<options, calls, firstResult, thrown, monthlyPrincipalBudget, result>>
  /\ UNCHANGED habitVars
  /\ UNCHANGED storeVars

\* lines 120-135
PayMinimums ==
  /\ pc = "minimum"
  /\ Install(MinimumStep(Locals, Context))
  /\ pc' = "rollover"
  /\ UNCHANGED <<options, calls, firstResult, thrown, monthlyPrincipalBudget, result>>
  /\ UNCHANGED habitVars
  /\ UNCHANGED storeVars

\* lines 137-154
RollSurplus ==
  /\ pc = "rollover"
  /\ Install(RolloverStep(Locals, Context))
  /\ pc' = "loop"
  /\ UNCHANGED <<options, calls, firstResult, thrown, monthlyPrincipalBudget, result>>
  /\ UNCHANGED habitVars
  /\ UNCHANGED storeVars

\* lines 157-178
Return ==
  /\ pc = "loop"
  /\ ~LoopCond(Locals, Context)
  /\ result' = Some(FinalResult(Locals, Context))
  /\ pc' = "done"
  /\ UNCHANGED <<debts, options, calls, firstResult, thrown, scheduled,
                 monthlyPrincipalBudget, perDebtResult, perDebtInterest,
                 totalInterestPaid, months, remainingPrincipal>>
  /\ UNCHANGED habitVars
  /\ UNCHANGED storeVars

\* the caller calls again with the list and the options it still holds
CallAgain ==
  /\ pc = "done"
  /\ calls = 1
  /\ firstResult' = result
  /\ result' = None
  /\ pc' = "call"
  /\ scheduled' = <<>>
  /\ monthlyPrincipalBudget' = 0
  /\ perDebtResult' = EmptyMap
  /\ perDebtInterest' = EmptyMap
  /\ totalInterestPaid' = 0
  /\ months' = 0
  /\ remainingPrincipal' = 0
  /\ UNCHANGED <<debts, options, calls, thrown>>
  /\ UNCHANGED habitVars
  /\ UNCHANGED storeVars

Next == Call \/ BeginMonth \/ PayMinimums \/ RollSurplus \/ Return \/ CallAgain

Spec == Init /\ [][Next]_vars

-----------------------------------------------------------------------------
(* The state machine of the habit engine, on a stored history at an       *)
(* instant: the patterns are detected and stored, a stored pattern is      *)
(* switched off, the due reminder is asked for, its reminder state stored  *)

\* no call of simulateDebtPayoff is under way
HabitInit ==
  /\ debts = <<>>
  /\ options = None
  /\ pc = "idle"
  /\ calls = 0
  /\ firstResult = None
  /\ thrown = FALSE
  /\ scheduled = <<>>
  /\ monthlyPrincipalBudget = 0
  /\ perDebtResult = EmptyMap
  /\ perDebtInterest = EmptyMap
  /\ totalInterestPaid = 0
  /\ months = 0
  /\ remainingPrincipal = 0
  /\ result = None
  /\ transactions \in Histories
  /\ clock \in {Clock[k] : k \in 1..Len(Clock)}
  /\ patterns = <<>>
  /\ habitStates = EmptyMap
  /\ reminder = None
  /\ stored = <<>>
  /\ saving = <<>>
  /\ supabase = FALSE

\* buildHabitPatterns(transactions, now), then saveHabitPatterns
DetectHabits ==
  /\ patterns' = buildHabitPatterns(transactions, clock)
  /\ reminder' = None
  /\ UNCHANGED <<transactions, clock, habitStates>>
  /\ UNCHANGED debtVars
  /\ UNCHANGED storeVars

\* the stored row of a pattern gets active = false
SwitchOff ==
  /\ \E i \in 1..Len(patterns) :
        /\ patterns[i].active
        /\ patterns' = [patterns EXCEPT ![i].active = FALSE]
  /\ reminder' = None
  /\ UNCHANGED <<transactions, clock, habitStates>>
  /\ UNCHANGED debtVars
  /\ UNCHANGED storeVars

\* the reminder was shown: saveHabitReminderState with the state of its habit
SaveReminderState ==
  /\ reminder # None /\ reminder[1] # None
  /\ \E s \in StatesOn(reminder[1][1].habitId, toLocalISODate(clock),
                       toLocalISODate(clock + Days(1))) :
        habitStates' = [id \in DOMAIN habitStates \cup {s.habitId} |->
                          IF id = s.habitId THEN s ELSE habitStates[id]]
  /\ reminder' = None
  /\ UNCHANGED <<transactions, clock, patterns>>
  /\ UNCHANGED debtVars
  /\ UNCHANGED storeVars

\* findDueHabitReminder(patterns, transactions, stateByHabitId, now)
AskReminder ==
  /\ reminder = None
  /\ \E u \in Unspecified(patterns, transactions, clock) :
        reminder' = Some(findDueHabitReminder(patterns, transactions,
                                               habitStates, clock, u))
  /\ UNCHANGED <<transactions, clock, patterns, habitStates>>
  /\ UNCHANGED debtVars
  /\ UNCHANGED storeVars

HabitNext == DetectHabits \/ SwitchOff \/ SaveReminderState \/ AskReminder

HabitSpec == HabitInit /\ [][HabitNext]_vars

\* getHabitPatterns: the rows come back as they were stored, merchantKey and
\* amountBucket null where the row has none; a row of the store that has
\* neither, its merchant key null or empty
GetHabitPatterns ==
  /\ \E i \in 1..Len(patterns), key \in {None, Some(<<>>)} :
        /\ patterns[i].merchantKey # None \/ patterns[i].amountBucket # None
        /\ patterns' = [patterns EXCEPT ![i].merchantKey = key,
                                        ![i].amountBucket = None]
  /\ reminder' = None
  /\ UNCHANGED <<transactions, clock, habitStates>>
  /\ UNCHANGED debtVars
  /\ UNCHANGED storeVars

StoredNext ==
  DetectHabits \/ SwitchOff \/ SaveReminderState \/ AskReminder \/ GetHabitPatterns

\* the histories that begin with the gym and do not end with the coffee:
\* the gym every week among the coffees or before the daily fare, the gym
\* once a month
StoredInit ==
  /\ HabitInit
  /\ transactions[1].category = Shapes.gym.category
  /\ transactions[Len(transactions)].category # Shapes.coffee.category

\* the habit engine on the patterns of the store
StoredSpec == StoredInit /\ [][StoredNext]_vars

-----------------------------------------------------------------------------
(* The state machine of saveTransaction on the list of localStorage: a    *)
(* call runs to its first await, and from an await to the next, while      *)
(* other calls do the same; processRecurringTransactions awaits each of    *)
(* its calls before the next                                               *)

MaxSaves == 3

\* what a caller saves: a new transaction or a new content under an id
Saveable ==
  {[Tx(shape, Some(At(0, 10 * 60)), FALSE) EXCEPT !.id = id] :
     shape \in {Shapes.coffee, Shapes.receipt}, id \in {"t1", "t2"}}

\* lines 49-52
RecordOf(transaction, now) ==
  [transaction EXCEPT !.created_at =
     IF transaction.created_at # None THEN transaction.created_at ELSE Some(now)]

\* line 56
Updated(record, current) ==
  <<record>> \o SelectSeq(current, LAMBDA t : t.id # record.id)

\* no call of simulateDebtPayoff nor of the habit engine is under way
SaveInit ==
  /\ debts = <<>>
  /\ options = None
  /\ pc = "idle"
  /\ calls = 0
  /\ firstResult = None
  /\ thrown = FALSE
  /\ scheduled = <<>>
  /\ monthlyPrincipalBudget = 0
  /\ perDebtResult = EmptyMap
  /\ perDebtInterest = EmptyMap
  /\ totalInterestPaid = 0
  /\ months = 0
  /\ remainingPrincipal = 0
  /\ result = None
  /\ transactions = <<>>
  /\ clock = Clock[1]
  /\ patterns = <<>>
  /\ habitStates = EmptyMap
  /\ reminder = None
  /\ stored \in {<<>>} \cup {<<RecordOf(t, Clock[1])>> : t \in Saveable}
  /\ saving = <<>>
  /\ supabase \in BOOLEAN

\* lines 48-55: saveTransaction is called, by a handler of the user or by
\* the loop of processRecurringTransactions (lines 121-124) once the call
\* before it has returned; the call runs to the await of the upsert with
\* supabase, and without it to the await of getTransactionsLocal, which
\* has read the list by then (lines 71-74)
SaveTransaction ==
  /\ Len(saving) < MaxSaves
  /\ \E transaction \in Saveable, by \in {"user", "recurring"} :
        /\ by = "recurring" =>
             \A c \in 1..Len(saving) :
                saving[c].by = "recurring" => saving[c].pc = "done"
        /\ saving' = Append(saving,
                            [record |-> RecordOf(transaction, clock),
                             by |-> by,
                             pc |-> IF supabase THEN "upsert" ELSE "write",
                             current |-> IF supabase THEN <<>> ELSE stored])
  /\ UNCHANGED <<stored, supabase>>
  /\ UNCHANGED debtVars
  /\ UNCHANGED habitVars

\* lines 54-55: the upsert has resolved, getTransactionsLocal reads the list
ReadLocal ==
  /\ \E c \in 1..Len(saving) :
        /\ saving[c].pc = "upsert"
        /\ saving' = [saving EXCEPT ![c].pc = "write", ![c].current = stored]
  /\ UNCHANGED <<stored, supabase>>
  /\ UNCHANGED debtVars
  /\ UNCHANGED habitVars

\* lines 56-57: the list that was read, with the record in front, is written
WriteLocal ==
  /\ \E c \in 1..Len(saving) :
        /\ saving[c].pc = "write"
        /\ stored' = Updated(saving[c].record, saving[c].current)
        /\ saving' = [saving EXCEPT ![c].pc = "done", ![c].current = <<>>]
  /\ UNCHANGED supabase
  /\ UNCHANGED debtVars
  /\ UNCHANGED habitVars

SaveNext == SaveTransaction \/ ReadLocal \/ WriteLocal

SaveSpec == SaveInit /\ [][SaveNext]_vars

-----------------------------------------------------------------------------
(* The model agrees with itself: a call that ran step by step returned what *)
(* the function computes                                                     *)

Returned == pc = "done" /\ ~thrown

TypeOK ==
  /\ pc \in {"call", "loop", "minimum", "rollover", "done"}
  /\ calls \in 0..2
  /\ (pc = "done") = (result # None)

StepwiseAgrees ==
  Returned => result[1] = simulateDebtPayoff(debts, options)

-----------------------------------------------------------------------------
(* What the claims speak of *)

\* the debts that enter the simulation, told from the caller's list
EnteringDebts ==
  {i \in 1..Len(debts) :
     debts[i].type = "payable" /\ ~debts[i].isPaid /\ debts[i].amount > 0}

\* the minimum payment the simulation commits for the caller's i-th debt
CommittedMinimum(i) ==
  LET given == IF debts[i].minimumPayment # None
                 THEN debts[i].minimumPayment[1]
                 ELSE IF options.minPaymentFallback # None
                        THEN options.minPaymentFallback[1] ELSE 0
  IN IF given > 0 THEN given ELSE 0

\* the positions in the caller's list of the debts of scheduled, in order
EnteringDebtsSeq ==
  SelectSeq([i \in 1..Len(debts) |-> i], LAMBDA i : i \in EnteringDebts)

RECURSIVE SumOver(_, _)
SumOver(S, f) ==
  IF S = {} THEN 0
  ELSE LET x == CHOOSE y \in S : TRUE IN f[x] + SumOver(S \ {x}, f)

MinimumsTotal == SumOver(EnteringDebts, [i \in EnteringDebts |-> CommittedMinimum(i)])

GivenExtra ==
  IF options.extraPrincipalBudget = None THEN 0 ELSE options.extraPrincipalBudget[1]

GivenMaxMonths ==
  IF options.maxMonths = None THEN DefaultMaxMonths ELSE options.maxMonths[1]

\* the budgets a second caller may pass instead
ExtraValues == {Money(-50), 0, Money(50), Money(100), Money(150)}

WithExtra(e) == [options EXCEPT !.extraPrincipalBudget = Some(e)]

Succeeded == Returned /\ result[1].warning = None
Diverged == Returned /\ result[1].warning = Some(WarnTooLong)

-----------------------------------------------------------------------------
\* C1: when the minimum payments of the simulated debts sum to more than 0
\* and extraPrincipalBudget is not negative, the month loop runs at most
\* maxMonths times (not at all when maxMonths is not positive), and the call
\* returns either a success with months <= maxMonths or the divergence warning.
C1_TerminatesWithinCap ==
  (MinimumsTotal > 0 /\ GivenExtra >= 0) =>
     /\ months <= Max(0, GivenMaxMonths)
     /\ pc = "done" =>
          /\ ~thrown
          /\ \/ /\ result[1].warning = None
                /\ result[1].months # None
                /\ result[1].months[1] <= Max(0, GivenMaxMonths)
             \/ result[1].warning = Some(WarnTooLong)

\* the cap ended the loop: the last allowed month ran and a debt is unpaid
C1_Witness ==
  /\ MinimumsTotal > 0 /\ GivenExtra >= 0
  /\ Diverged
  /\ months = GivenMaxMonths
  /\ months >= 2

\* C2: with the debts, strategy, startDate and maxMonths fixed, a call that
\* completes in m1 months with budget e1 also completes with every e2 >= e1,
\* in at most m1 months.
C2_MonthsMonotone ==
  (Returned /\ result[1].months # None) =>
     \A e2 \in ExtraValues :
        e2 >= GivenExtra =>
          LET r2 == simulateDebtPayoff(debts, WithExtra(e2))
          IN r2.months # None /\ r2.months[1] <= result[1].months[1]

\* a larger budget made the payoff strictly shorter
C2_Witness ==
  /\ Returned /\ result[1].months # None /\ result[1].months[1] >= 3
  /\ \E e2 \in ExtraValues :
        /\ e2 > GivenExtra
        /\ simulateDebtPayoff(debts, WithExtra(e2)).months[1] < result[1].months[1]

\* C3 as claimed: for each strategy, a larger extraPrincipalBudget never
\* yields a larger totalInterestPaid.
C3_Original ==
  Returned =>
     \A e2 \in ExtraValues :
        e2 >= GivenExtra =>
          simulateDebtPayoff(debts, WithExtra(e2)).totalInterestPaid
             <= result[1].totalInterestPaid

\* C3: for the strategies avalanche and dueDate, when the call with budget e1
\* simulates (it does not return the configuration warning), every e2 >= e1
\* yields a totalInterestPaid that is not larger.
C3_InterestMonotoneFixedOrder ==
  (/\ Returned
   /\ options.strategy \in {"avalanche", "dueDate"}
   /\ result[1].warning # Some(WarnSetPayments)) =>
     \A e2 \in ExtraValues :
        e2 >= GivenExtra =>
          simulateDebtPayoff(debts, WithExtra(e2)).totalInterestPaid
             <= result[1].totalInterestPaid

\* a larger budget saved interest under avalanche
C3_Witness ==
  /\ Succeeded
  /\ options.strategy = "avalanche"
  /\ Len(scheduled) = 2
  /\ \E e2 \in ExtraValues :
        /\ e2 > GivenExtra
        /\ simulateDebtPayoff(debts, WithExtra(e2)).totalInterestPaid
             < result[1].totalInterestPaid

\* C4: no step of a call changes the caller's debt list or a debt in it, and
\* the second call with the same debts and options returns what the first did.
C4_CallerUntouchedSameResult ==
  [][/\ debts' = debts
     /\ options' = options
     /\ (pc' = "done" /\ calls' = 2) => result' = firstResult']_vars

\* a second call that simulated months has returned
C4_Witness ==
  /\ pc = "done" /\ calls = 2
  /\ months >= 2
  /\ \E i \in 1..Len(scheduled) : scheduled[i].balance # debts[EnteringDebtsSeq[i]].amount

\* C5: when no debt enters the simulation the call returns warning = null,
\* months = 0, payoffDate = startDate, monthlyPrincipalBudget = 0,
\* totalInterestPaid = 0 and an empty perDebt, whatever the strategy and budget.
C5_NothingToSimulate ==
  (pc = "done" /\ EnteringDebts = {}) =>
     /\ ~thrown
     /\ result[1].warning = None
     /\ result[1].months = Some(0)
     /\ result[1].payoffDate = Some(options.startDate)
     /\ result[1].monthlyPrincipalBudget = 0
     /\ result[1].totalInterestPaid = 0
     /\ DOMAIN result[1].perDebt = {}

\* a list of paid, non-payable or empty debts was passed with a budget
C5_Witness ==
  /\ pc = "done" /\ EnteringDebts = {}
  /\ Len(debts) = 2
  /\ debts[1].isPaid
  /\ debts[2].amount <= 0
  /\ GivenExtra > 0

\* C6: when a debt enters the simulation and the monthly principal budget
\* (the minimum payments plus extraPrincipalBudget) is <= 0, no month is
\* simulated and the call returns the 'Set monthly payments to project payoff'
\* warning with months and payoffDate null, monthlyPrincipalBudget and
\* totalInterestPaid 0 and an empty perDebt.
C6_NoBudgetNoSimulation ==
  (EnteringDebts # {} /\ MinimumsTotal + Max(0, GivenExtra) <= 0) =>
     /\ pc \in {"call", "done"}
     /\ months = 0
     /\ pc = "done" =>
          /\ ~thrown
          /\ result[1].warning = Some(WarnSetPayments)
          /\ result[1].months = None
          /\ result[1].payoffDate = None
          /\ result[1].monthlyPrincipalBudget = 0
          /\ result[1].totalInterestPaid = 0
          /\ DOMAIN result[1].perDebt = {}

\* a debt with an interest rate and no payment at all was passed
C6_Witness ==
  /\ pc = "done"
  /\ Len(scheduled) >= 1
  /\ \E i \in 1..Len(scheduled) : scheduled[i].rate > 0 /\ Active(scheduled[i])
  /\ MinimumsTotal + Max(0, GivenExtra) <= 0
  /\ GivenMaxMonths > 0

\* the ids of the simulated debts that were owed and are now paid off
PaidOffIds ==
  {debts[i].id : i \in {j \in EnteringDebts : debts[j].amount > Half}}
    \ {scheduled[i].id : i \in {j \in 1..Len(scheduled) : scheduled[j].balance > Half}}

\* C7: when the loop has run its maxMonths-th month and a debt still has
\* balance > 0.5, the result carries the 'Payment plan too long' warning,
\* months and payoffDate are null, and monthlyPrincipalBudget, the interest
\* accumulated so far and the perDebt entries of the debts paid off so far
\* are returned.
C7_DivergencePartials ==
  (/\ pc = "done"
   /\ months >= 1
   /\ months = GivenMaxMonths
   /\ \E i \in 1..Len(scheduled) : scheduled[i].balance > Half) =>
     /\ ~thrown
     /\ result[1].warning = Some(WarnTooLong)
     /\ result[1].warning # Some(WarnSetPayments)
     /\ result[1].months = None
     /\ result[1].payoffDate = None
     /\ result[1].monthlyPrincipalBudget = MinimumsTotal + Max(0, GivenExtra)
     /\ result[1].monthlyPrincipalBudget > 0
     /\ result[1].totalInterestPaid = totalInterestPaid
     /\ DOMAIN result[1].perDebt = PaidOffIds
     /\ \A id \in PaidOffIds : result[1].perDebt[id].payoffMonth \in 1..months

\* the cap was reached after one debt was paid off and interest was charged
C7_Witness ==
  /\ pc = "done"
  /\ months = GivenMaxMonths /\ months >= 2
  /\ \E i \in 1..Len(scheduled) : scheduled[i].balance > Half
  /\ PaidOffIds # {}
  /\ totalInterestPaid > 0

InvalidInvocation == GivenExtra < 0 \/ GivenMaxMonths <= 0

\* C8 as claimed: a call with a negative extraPrincipalBudget or a
\* non-positive maxMonths throws, and every other call returns a result.
C8_Original ==
  pc = "done" => (thrown <=> InvalidInvocation)

\* C8: no call throws; a negative extraPrincipalBudget is taken as 0, and
\* with a non-positive maxMonths no month is simulated and the call returns
\* a result: the divergence warning when a debt has balance > 0.5 and the
\* budget is positive.
C8_InvalidInvocationTolerated ==
  pc = "done" =>
     /\ ~thrown
     /\ result # None
     /\ GivenExtra < 0 => result[1] = simulateDebtPayoff(debts, WithExtra(0))
     /\ GivenMaxMonths <= 0 =>
          /\ months = 0
          /\ result[1].totalInterestPaid = 0
          /\ ((\E i \in EnteringDebts : debts[i].amount > Half)
                /\ MinimumsTotal + Max(0, GivenExtra) > 0)
               => result[1].warning = Some(WarnTooLong)

\* a call with a negative budget and a negative maxMonths, with debts to
\* pay and minimum payments to pay them with, has returned
C8_Witness ==
  /\ pc = "done" /\ ~thrown
  /\ GivenExtra < 0
  /\ GivenMaxMonths <= 0
  /\ MinimumsTotal > 0
  /\ Diverged

\* the calendar date of a Date, without its time
Day(date) == [y |-> date.y, m |-> date.m, d |-> date.d]

\* start advanced by k calendar months, same day-of-month
CalendarAdvance(start, k) ==
  [y |-> (start.y * 12 + start.m + k) \div 12,
   m |-> (start.y * 12 + start.m + k) % 12,
   d |-> start.d]

\* date is local midnight of the day that Date makes of start's day-of-month
\* in the k-th month after start's month
IsDateNormalised(start, k, date) ==
  LET t == start.y * 12 + start.m + k
      len == DaysInMonth(t \div 12, t % 12)
  IN /\ date.min = 0
     /\ IF start.d <= len
          THEN date.y * 12 + date.m = t /\ date.d = start.d
          ELSE date.y * 12 + date.m = t + 1 /\ date.d = start.d - len

\* C9 as claimed: on success with months = m, payoffDate is startDate advanced
\* by exactly m calendar months, same day-of-month, and each perDebt
\* payoffDate is startDate advanced by the debt's payoffMonth.
C9_Original ==
  Succeeded =>
     /\ Day(result[1].payoffDate[1])
          = CalendarAdvance(options.startDate, result[1].months[1])
     /\ \A id \in DOMAIN result[1].perDebt :
          Day(result[1].perDebt[id].payoffDate)
            = CalendarAdvance(options.startDate, result[1].perDebt[id].payoffMonth)

\* C9: on success after a simulation with months = m, payoffDate is local
\* midnight of startDate advanced by max(0, m - 1) calendar months, where a
\* day-of-month the target month lacks carries into the following month; each
\* perDebt payoffDate is the same for the debt's payoffMonth - 1.
C9_PayoffDateOneMonthBack ==
  (Succeeded /\ EnteringDebts # {}) =>
     /\ IsDateNormalised(options.startDate, Max(0, result[1].months[1] - 1),
                         result[1].payoffDate[1])
     /\ \A id \in DOMAIN result[1].perDebt :
          IsDateNormalised(options.startDate,
                           result[1].perDebt[id].payoffMonth - 1,
                           result[1].perDebt[id].payoffDate)

\* a payoff in the second month from a 31 January start: 31 February carries
C9_Witness ==
  /\ Succeeded
  /\ result[1].months = Some(2)
  /\ options.startDate = Jan31
  /\ Day(result[1].payoffDate[1]) = [y |-> 2024, m |-> 2, d |-> 2]
  /\ DOMAIN result[1].perDebt # {}

\* what is owed on the debts that still count as unpaid
RECURSIVE UnpaidBalance(_)
UnpaidBalance(sch) ==
  IF sch = <<>> THEN 0
  ELSE (IF sch[1].balance > Half THEN sch[1].balance ELSE 0) + UnpaidBalance(Tail(sch))

RECURSIVE SumBalances(_)
SumBalances(sch) ==
  IF sch = <<>> THEN 0 ELSE sch[1].balance + SumBalances(Tail(sch))

SnowballOnMinimums ==
  options.strategy = "snowball" /\ Max(0, GivenExtra) = 0

\* C10 as claimed: with snowball and no extra budget the call ends in no
\* error, every active debt is paid its minimum (its balance, if that is
\* less) in the minimum step of each month, and the rollover step pays
\* nothing in any month.
C10_Original ==
  [][SnowballOnMinimums =>
       /\ pc' = "done" => ~thrown'
       /\ pc = "minimum" =>
            \A i \in 1..Len(scheduled) :
               scheduled[i].balance > Half =>
                 scheduled'[i].balance
                   = scheduled[i].balance - Min(scheduled[i].minPay, scheduled[i].balance)
       /\ pc = "rollover" => scheduled' = scheduled]_vars

\* C10: with snowball, no extra budget and minimum payments that sum to more
\* than 0, the simulation runs and returns no configuration warning; in each
\* month the minimum step pays every active debt min(minPay, balance) and
\* leaves the others alone; the rollover step pays only what the minimum step
\* left of the budget: min(leftover, unpaid balance) when the leftover is
\* above 0.5, else nothing, and nothing at all in a month in which every
\* simulated debt is active and owes at least its minimum.
C10_SnowballOnMinimums ==
  [][(SnowballOnMinimums /\ MinimumsTotal > 0) =>
       /\ pc = "call" => pc' = "loop" /\ ~thrown'
       /\ pc' = "done" => result'[1].warning # Some(WarnSetPayments)
       /\ pc = "minimum" =>
            /\ \A i \in 1..Len(scheduled) :
                 scheduled'[i].balance
                   = IF scheduled[i].balance > Half
                       THEN scheduled[i].balance
                              - Min(scheduled[i].minPay, scheduled[i].balance)
                       ELSE scheduled[i].balance
            /\ (\A i \in 1..Len(scheduled) :
                  scheduled[i].balance > Half
                    /\ scheduled[i].balance >= scheduled[i].minPay)
                 => remainingPrincipal' = 0
       /\ pc = "rollover" =>
            /\ SumBalances(scheduled) - SumBalances(scheduled')
                 = IF remainingPrincipal > Half
                     THEN Min(remainingPrincipal, UnpaidBalance(scheduled))
                     ELSE 0
            /\ remainingPrincipal = 0 => scheduled' = scheduled]_vars

\* a month of a snowball call on minimums only in which the rollover paid
C10_Witness ==
  /\ SnowballOnMinimums /\ MinimumsTotal > 0
  /\ pc = "loop" /\ months >= 1
  /\ remainingPrincipal = 0
  /\ \E i \in 1..Len(scheduled) :
        /\ scheduled[i].balance > Half
        /\ scheduled[i].minPay > 0
        /\ (debts[EnteringDebtsSeq[i]].amount - scheduled[i].balance)
             > months * scheduled[i].minPay

-----------------------------------------------------------------------------
(* What the claims on the habit engine speak of *)

\* the transactions with the category and the criterion of the pattern
SameTuple(t, pattern) ==
  /\ t.category = pattern.category
  /\ CriterionOf(t) = [merchantKey |-> pattern.merchantKey,
                       bucket |-> pattern.amountBucket]

IsExpenseOfHabits(t) ==
  t.type = "expense" /\ t.category \notin {"Debt", "Savings"}

\* an expense outside Debt and Savings dated within the 180 days before now
IsCandidate(t) ==
  /\ IsExpenseOfHabits(t)
  /\ t.date # NaN
  /\ t.date[1] >= clock - Days(180)
  /\ t.date[1] <= clock

CandidatesOf(pattern) ==
  {k \in 1..Len(transactions) :
     IsCandidate(transactions[k]) /\ SameTuple(transactions[k], pattern)}

\* C11: every pattern buildHabitPatterns emitted has exactly one of
\* merchantKey and amountBucket non-null: never both, never neither.
C11_ExactlyOneCriterion ==
  \A i \in 1..Len(patterns) :
     (patterns[i].merchantKey = None) # (patterns[i].amountBucket = None)

\* patterns of both kinds were emitted by one call
C11_Witness ==
  \E i, j \in 1..Len(patterns) :
     patterns[i].merchantKey # None /\ patterns[j].amountBucket # None

\* C12: the id of an emitted pattern is habitIdFor of the pattern's own
\* category, merchantKey and amountBucket; every stored transaction that
\* derives the tuple of a pattern is given the id of that pattern; and the
\* id of a tuple is the same in every call, whatever now, the other
\* transactions and their order: the ids of (Food, "starbucks coffee", null)
\* and of (Transport, null, 200) are the base-36 numbers qxxaj7 and 1kydo44.
C12_HabitIdOfTuple ==
  \A i \in 1..Len(patterns) :
     /\ patterns[i].habitId
          = habitIdFor(patterns[i].category, patterns[i].merchantKey,
                       patterns[i].amountBucket)
     /\ \A k \in 1..Len(transactions) :
           SameTuple(transactions[k], patterns[i])
             => GroupIdOf(transactions[k]) = patterns[i].habitId
     /\ (/\ patterns[i].category = "Food"
         /\ patterns[i].merchantKey = MerchantKeys[Shapes.coffee.description]
         /\ patterns[i].amountBucket = None)
          => patterns[i].habitId = <<"q", "x", "x", "a", "j", "7">>
     /\ (/\ patterns[i].category = "Transport"
         /\ patterns[i].merchantKey = None
         /\ patterns[i].amountBucket = Some(200))
          => patterns[i].habitId = <<"1", "k", "y", "d", "o", "4", "4">>

\* a pattern was emitted for a group whose transactions differ in
\* description and amount, stored among those of another habit
C12_Witness ==
  /\ Len(patterns) = 2
  /\ \E k, l \in 1..Len(transactions) :
        /\ SameTuple(transactions[k], patterns[2])
        /\ SameTuple(transactions[l], patterns[2])
        /\ transactions[k].description # transactions[l].description
        /\ transactions[k].amount # transactions[l].amount

\* C13 as claimed: a pattern is emitted only for a group that holds at least
\* 3 candidates, a candidate being an expense outside Debt and Savings dated
\* within the 180 days before now, and no emitted pattern has category Debt
\* or Savings.
C13_Original ==
  \A i \in 1..Len(patterns) :
     /\ patterns[i].category \notin {"Debt", "Savings"}
     /\ Cardinality(CandidatesOf(patterns[i])) >= 3

\* the transactions left when those with a malformed date or with an amount
\* that is not positive are taken away
WellFormed(txs) ==
  SelectSeq(txs, LAMBDA t : t.date # NaN /\ t.amount > 0)

\* C14 as claimed: the transactions with a malformed date or a non-positive
\* amount contribute to no emitted pattern: the patterns detected are the
\* patterns detected without these transactions.
C14_Original ==
  patterns # <<>>
    => [i \in 1..Len(patterns) |-> [patterns[i] EXCEPT !.active = TRUE]]
         = buildHabitPatterns(WellFormed(transactions), clock)

\* the answer of the last call of findDueHabitReminder is a candidate
Reminded == reminder # None /\ reminder[1] # None

\* an exclusion gate holds for the pattern at clock: reminded today, snoozed
\* until today or later, or a matching transaction dated today
Gated(pattern) ==
  LET today == toLocalISODate(clock)
  IN \/ /\ pattern.habitId \in DOMAIN habitStates
        /\ habitStates[pattern.habitId].lastRemindedDate = Some(today)
     \/ /\ pattern.habitId \in DOMAIN habitStates
        /\ habitStates[pattern.habitId].snoozedUntil # None
        /\ LET until == habitStates[pattern.habitId].snoozedUntil[1]
           IN <<until.y, until.m, until.d>> \in
                {<<y, m, d>> \in (2023..2025) \X (0..11) \X (1..31) :
                   \/ y > today.y
                   \/ y = today.y /\ m > today.m
                   \/ y = today.y /\ m = today.m /\ d >= today.d}
     \/ \E k \in 1..Len(transactions) :
          /\ matchesPattern(transactions[k], pattern)
          /\ transactions[k].date # NaN
          /\ toLocalISODate(transactions[k].date[1]) = today

\* C15: the candidate findDueHabitReminder returns is never that of a
\* pattern for which an exclusion gate holds (reminded today, snoozed until
\* today or later, a matching transaction dated today), nor that of an
\* inactive pattern.
C15_GatedNeverReturned ==
  Reminded =>
    \A i \in 1..Len(patterns) :
       patterns[i].habitId = reminder[1][1].habitId
         => patterns[i].active /\ ~Gated(patterns[i])

\* a candidate was returned while another pattern, active, was held back by
\* a gate
C15_Witness ==
  /\ Reminded
  /\ \E i \in 1..Len(patterns) :
        /\ patterns[i].active
        /\ Gated(patterns[i])
        /\ patterns[i].habitId # reminder[1][1].habitId

\* 00:00 of the most recent Monday, from the count of days alone: day 0 of
\* the instants is a Sunday
MondayBefore(t) ==
  ((t \div DayMinutes) - (((t \div DayMinutes) + 6) % 7)) * DayMinutes

MatchedThisWeek(pattern) ==
  \E k \in 1..Len(transactions) :
     /\ matchesPattern(transactions[k], pattern)
     /\ transactions[k].date # NaN
     /\ transactions[k].date[1] >= MondayBefore(clock)

\* C16: the candidate findDueHabitReminder returns is never that of a weekly
\* pattern that has a matching transaction dated on or after 00:00 of the
\* most recent Monday, whatever the dowProb, the score, the reminder state
\* and the time of day.
C16_WeeklyOncePerWeek ==
  Reminded =>
    \A i \in 1..Len(patterns) :
       (/\ patterns[i].habitId = reminder[1][1].habitId
        /\ patterns[i].intervalType = "weekly")
         => ~MatchedThisWeek(patterns[i])

\* findDueHabitReminder was asked with a weekly pattern, active, no gate
\* holding, likely on the weekday and late enough in the day, that a match of
\* this week alone holds back
C16_Witness ==
  /\ reminder # None
  /\ \E i \in 1..Len(patterns) :
        /\ patterns[i].intervalType = "weekly"
        /\ patterns[i].active
        /\ ~Gated(patterns[i])
        /\ MatchedThisWeek(patterns[i])
        /\ patterns[i].dowProb[((clock \div DayMinutes) % 7) + 1] * 10 >= 4 * ProbScale
        /\ clock % DayMinutes >= 12 * 60
        /\ (Reminded => reminder[1][1].habitId # patterns[i].habitId)

\* the score of the claim, in units of 1 / ProbScale: the probability of
\* today's weekday, plus 0.2 for a daily pattern, 0.1 for a weekly one
ScoreOf(pattern) ==
  pattern.dowProb[((clock \div DayMinutes) % 7) + 1]
    + (CASE pattern.intervalType = "daily" -> 8
         [] pattern.intervalType = "weekly" -> 4
         [] OTHER -> 0)

\* the active patterns that survive the gates and the due policy, u being
\* what the call read of an order the sort leaves open
Survivors(u) ==
  {i \in 1..Len(patterns) :
     /\ patterns[i].active
     /\ Survives(patterns[i], transactions, habitStates, clock, u[i])}

Winner(S) ==
  CHOOSE i \in S :
    \A j \in S : \/ ScoreOf(patterns[j]) < ScoreOf(patterns[i])
                 \/ ScoreOf(patterns[j]) = ScoreOf(patterns[i]) /\ i <= j

\* C17: findDueHabitReminder returns null when no active pattern survives
\* the gates and the due policy, and otherwise the one candidate of the
\* survivor of highest score = dowProb[today's weekday] + (0.2 if daily, 0.1
\* if weekly, 0 otherwise), the first in the order of patterns among those
\* that tie on it.
C17_HighestScoreFirstWins ==
  reminder # None =>
    \E u \in Unspecified(patterns, transactions, clock) :
       IF Survivors(u) = {} THEN reminder[1] = None
       ELSE reminder[1] = Some(CandidateOf(patterns[Winner(Survivors(u))]))

\* the candidate of a pattern was returned while a later pattern survived
\* with the same score
C17_Witness ==
  /\ Reminded
  /\ \E u \in Unspecified(patterns, transactions, clock) :
       \E i, j \in Survivors(u) :
          /\ i < j
          /\ patterns[i].habitId = reminder[1][1].habitId
          /\ ScoreOf(patterns[i]) = ScoreOf(patterns[j])

-----------------------------------------------------------------------------
(* What the claims on the months of the simulation speak of *)

\* a step of the month loop: the start of a month with its interest, the
\* minimum payments, the rollover
InMonthLoop == pc \in {"loop", "minimum", "rollover"} /\ pc' # "done"

BalanceOf(sch, id) ==
  sch[CHOOSE i \in 1..Len(sch) : sch[i].id = id].balance

\* C18: interest is never capitalized.  In every step of the month loop the
\* balance of every debt does not grow and does not go below 0; the step
\* that charges the interest leaves every balance as it is; and a debt with
\* balance <= 0.5 keeps its balance and its interest accumulator: it accrues
\* no interest and is paid nothing.
C18_InterestNeverCapitalized ==
  [][InMonthLoop =>
       /\ Len(scheduled') = Len(scheduled)
       /\ \A i \in 1..Len(scheduled) :
             /\ scheduled'[i].id = scheduled[i].id
             /\ scheduled'[i].balance <= scheduled[i].balance
             /\ scheduled'[i].balance >= 0
             /\ scheduled[i].balance <= Half =>
                  /\ scheduled'[i].balance = scheduled[i].balance
                  /\ perDebtInterest'[scheduled[i].id]
                       = perDebtInterest[scheduled[i].id]
       /\ pc = "loop" =>
             /\ scheduled' = scheduled
             /\ perDebtResult' = perDebtResult
       /\ pc # "loop" =>
             /\ perDebtInterest' = perDebtInterest
             /\ totalInterestPaid' = totalInterestPaid]_vars

\* a month has just started in which interest was charged on a debt while
\* another debt was at a balance <= 0.5
C18_Witness ==
  /\ pc = "minimum"
  /\ months >= 2
  /\ \E i, j \in 1..Len(scheduled) :
        /\ scheduled[i].balance <= Half
        /\ scheduled[j].balance > Half
        /\ Interest(scheduled[j]) > 0
        /\ perDebtInterest[scheduled[j].id] >= 2 * Interest(scheduled[j])

\* the debts whose balance goes from above 0.5 to 0.5 or less in the step
PaidOffInStep ==
  {scheduled[i].id : i \in {j \in 1..Len(scheduled) :
                              /\ scheduled[j].balance > Half
                              /\ scheduled'[j].balance <= Half}}

\* C19: perDebt is write-once.  In every step of the month loop the entries
\* that exist stay as they are; the entries the step creates are those of the
\* debts whose balance becomes <= 0.5 in it; and a new entry has payoffMonth
\* = the 1-based index of the month and totalInterestPaid = the interest
\* accrued on the debt in the months up to and including this one.
C19_PerDebtWriteOnce ==
  [][InMonthLoop =>
       /\ \A id \in DOMAIN perDebtResult :
             /\ id \in DOMAIN perDebtResult'
             /\ perDebtResult'[id] = perDebtResult[id]
       /\ DOMAIN perDebtResult' \ DOMAIN perDebtResult = PaidOffInStep
       /\ \A id \in PaidOffInStep :
             /\ perDebtResult'[id].payoffMonth = months
             /\ perDebtResult'[id].payoffMonth >= 1
             /\ perDebtResult'[id].totalInterestPaid = perDebtInterest[id]]_vars

\* a month is simulated after the month in which a debt that had accrued
\* interest was paid off and entered
C19_Witness ==
  /\ pc = "rollover"
  /\ \E id \in DOMAIN perDebtResult :
        /\ perDebtResult[id].payoffMonth < months
        /\ perDebtResult[id].totalInterestPaid > 0
  /\ \E id \in DOMAIN perDebtResult : perDebtResult[id].payoffMonth = months

\* min(minPay, balance) for a debt with balance > 0.5, nothing for the others
MinimumDue(d) ==
  IF d.balance > Half
    THEN (IF d.minPay < d.balance THEN d.minPay ELSE d.balance)
    ELSE 0

\* C20: in every simulated month the minimum step, which comes before the
\* rollover, pays every debt with balance > 0.5 min(minPay, balance) of
\* principal: no active debt is left out or paid less because the budget ran
\* out; the budget left is what these payments leave; and the step is the
\* same under avalanche, snowball and dueDate.
C20_MinimumsFirst ==
  [][(pc = "minimum") =>
       /\ pc' = "rollover"
       /\ Len(scheduled') = Len(scheduled)
       /\ \A i \in 1..Len(scheduled) :
             scheduled'[i]
               = [scheduled[i] EXCEPT !.balance = @ - MinimumDue(scheduled[i])]
       /\ remainingPrincipal' >= 0
       /\ \A strategy \in {"avalanche", "snowball", "dueDate"} :
             LET other == MinimumStep(Locals, [Context EXCEPT !.strategy = strategy])
             IN /\ other.scheduled = scheduled'
                /\ other.remainingPrincipal = remainingPrincipal'
                /\ other.perDebtResult = perDebtResult']_vars

\* under dueDate the minimum step of a second month or later paid two debts
\* their minimum, less than their balance, and used the budget up
C20_Witness ==
  /\ pc = "rollover"
  /\ months >= 2
  /\ options.strategy = "dueDate"
  /\ remainingPrincipal = 0
  /\ Len(scheduled) >= 2
  /\ \A i \in 1..Len(scheduled) :
        scheduled[i].balance > Half /\ scheduled[i].minPay > 0

\* a comes strictly before b in the order of the strategy
GoesFirst(strategy, a, b) ==
  CASE strategy = "avalanche" -> a.rate > b.rate
    [] strategy = "snowball" -> a.balance < b.balance
    [] OTHER ->
         \/ a.dueDate # None /\ b.dueDate = None
         \/ a.dueDate # None /\ b.dueDate # None /\ a.dueDate[1] < b.dueDate[1]
         \/ a.dueDate = b.dueDate /\ IdRank(a.id) < IdRank(b.id)

\* the debts the step pays
PaidInStep ==
  {i \in 1..Len(scheduled) : scheduled'[i].balance < scheduled[i].balance}

RECURSIVE TotalBalance(_)
TotalBalance(sch) ==
  IF sch = <<>> THEN 0 ELSE sch[1].balance + TotalBalance(Tail(sch))

\* what the debts that enter the simulation owe at the call
TotalInitial == TotalBalance(Schedule(debts, options))

\* the balances, the minimum payments and the extra budget of the call are
\* whole numbers, and the call enters the month loop
WholeNumbers ==
  /\ calls >= 1
  /\ pc # "call"
  /\ Len(Schedule(debts, options)) > 0
  /\ monthlyPrincipalBudget > 0
  /\ ExtraOf(options) % Unit = 0
  /\ \A i \in 1..Len(Schedule(debts, options)) :
        /\ Schedule(debts, options)[i].balance % Unit = 0
        /\ Schedule(debts, options)[i].minPay % Unit = 0

\* C26: with whole balances, minimum payments and extra budget, the months
\* simulated so far have each paid min(monthlyPrincipalBudget, what was
\* owed) of principal: between two months what is still owed is the initial
\* total less months * budget, or 0; on success months is the ceiling of
\* (initial total / monthlyPrincipalBudget), and it is the months the call
\* returns under each of avalanche, snowball and dueDate.
C26_MonthsIsCeiling ==
  WholeNumbers =>
    /\ pc \in {"loop", "done"} =>
         TotalBalance(scheduled)
           = Max(0, TotalInitial - months * monthlyPrincipalBudget)
    /\ Succeeded =>
         /\ result[1].months[1]
              = (TotalInitial + monthlyPrincipalBudget - 1)
                  \div monthlyPrincipalBudget
         /\ \A strategy \in Strategies :
               simulateDebtPayoff(debts, [options EXCEPT !.strategy = strategy]).months
                 = result[1].months

\* a success after 2 months or more, the last of which paid less than the
\* budget, of debts that owed different sums
C26_Witness ==
  /\ WholeNumbers
  /\ Succeeded
  /\ result[1].months[1] >= 2
  /\ TotalInitial % monthlyPrincipalBudget # 0
  /\ Len(scheduled) = 2
  /\ Schedule(debts, options)[1].balance # Schedule(debts, options)[2].balance

\* C27: in every simulated month remainingPrincipal starts at
\* monthlyPrincipalBudget, goes down in the minimum step and in the rollover
\* step by exactly the principal the step pays, and never goes below 0: the
\* principal paid in a month never exceeds monthlyPrincipalBudget.
C27_WithinBudget ==
  [][InMonthLoop =>
       /\ remainingPrincipal' >= 0
       /\ remainingPrincipal' <= monthlyPrincipalBudget
       /\ pc = "loop" => remainingPrincipal' = monthlyPrincipalBudget
       /\ pc # "loop" =>
            TotalBalance(scheduled) - TotalBalance(scheduled')
              = remainingPrincipal - remainingPrincipal']_vars

\* a second month or later ended with the budget used up to the last unit,
\* a debt paid off and another still owing
C27_Witness ==
  /\ pc = "loop"
  /\ months >= 2
  /\ remainingPrincipal = 0
  /\ SomeActive(scheduled)
  /\ DOMAIN perDebtResult # {}

\* the call returned a success after at least one debt entered scheduled
SucceededWithDebts == Succeeded /\ Len(Schedule(debts, options)) > 0

PayoffMonths == {result[1].perDebt[id].payoffMonth : id \in DOMAIN result[1].perDebt}

\* C28 as claimed: on a success with at least one debt in the simulation,
\* perDebt has an entry for every debt that entered it, every payoffMonth is
\* in 1..months, and months is the largest payoffMonth.
C28_Original ==
  SucceededWithDebts =>
    /\ \A i \in 1..Len(Schedule(debts, options)) :
          Schedule(debts, options)[i].id \in DOMAIN result[1].perDebt
    /\ \A p \in PayoffMonths : 1 <= p /\ p <= result[1].months[1]
    /\ result[1].months[1] \in PayoffMonths

\* C28: on a success with at least one debt in the simulation, perDebt has
\* an entry for exactly the debts that entered it owing more than 0.5; every
\* payoffMonth is in 1..months; and months is the largest payoffMonth, or 0
\* when no debt owed more than 0.5.
C28_EveryActiveDebtEntered ==
  SucceededWithDebts =>
    /\ DOMAIN result[1].perDebt
         = {Schedule(debts, options)[i].id :
              i \in {j \in 1..Len(Schedule(debts, options)) :
                       Schedule(debts, options)[j].balance > Half}}
    /\ \A p \in PayoffMonths : 1 <= p /\ p <= result[1].months[1]
    /\ IF PayoffMonths = {} THEN result[1].months[1] = 0
       ELSE result[1].months[1] \in PayoffMonths

\* a success over a debt that owed 0.5 at the call and a debt paid off in the
\* second month or later
C28_Witness ==
  /\ SucceededWithDebts
  /\ result[1].months[1] >= 2
  /\ \E i \in 1..Len(Schedule(debts, options)) :
        Schedule(debts, options)[i].balance <= Half
  /\ PayoffMonths # {}

\* the sum of the totalInterestPaid of the entries ids of per
RECURSIVE EntriesInterest(_, _)
EntriesInterest(per, ids) ==
  IF ids = {} THEN 0
  ELSE LET id == CHOOSE x \in ids : TRUE
       IN per[id].totalInterestPaid + EntriesInterest(per, ids \ {id})

\* C29: on success totalInterestPaid is the sum of the totalInterestPaid of
\* the perDebt entries; and as long as the call runs, the interest accrued on
\* a debt that has an entry is the interest of the entry: none is accrued
\* after the month the debt is entered as paid off.
C29_InterestAttributed ==
  /\ Succeeded =>
       result[1].totalInterestPaid
         = EntriesInterest(result[1].perDebt, DOMAIN result[1].perDebt)
  /\ pc \in {"loop", "minimum", "rollover", "done"} =>
       \A id \in DOMAIN perDebtResult :
          perDebtInterest[id] = perDebtResult[id].totalInterestPaid

\* a success with two debts paid off in different months, interest charged
\* on both
C29_Witness ==
  /\ Succeeded
  /\ \E a, b \in DOMAIN result[1].perDebt :
        /\ result[1].perDebt[a].payoffMonth < result[1].perDebt[b].payoffMonth
        /\ result[1].perDebt[a].totalInterestPaid > 0
        /\ result[1].perDebt[b].totalInterestPaid
             > result[1].perDebt[a].totalInterestPaid

-----------------------------------------------------------------------------
(* What the claims on the interval of a pattern speak of                   *)

\* the transactions of the history that buildHabitPatterns put in the group
\* of the pattern: those it kept that have the category and the criterion
GroupOf(pattern) ==
  SelectSeq(transactions,
            LAMBDA t : IsRecent(t, clock) /\ SameTuple(t, pattern))

\* the non-zero differences, in whole days, between one transaction of the
\* group and the next in date order
DayGapsOf(pattern) ==
  LET Differences(days) ==
        SelectSeq([i \in 1..(Len(days) - 1) |-> days[i + 1] - days[i]],
                  LAMBDA gap : gap # 0)
      DaysOf(group) ==
        Differences(SortAsc([i \in 1..Len(group) |-> DayIndex(group[i].date[1])]))
  IN DaysOf(GroupOf(pattern))

\* the interval type of a median given as twice its value
TypeOfTwice(m2) ==
  IF m2 <= 2 * 2 THEN "daily"
  ELSE IF 2 * 6 <= m2 /\ m2 <= 2 * 8 THEN "weekly"
  ELSE IF 2 * 25 <= m2 /\ m2 <= 2 * 35 THEN "monthly"
  ELSE "unknown"

\* C22 as stated: intervalDaysMedian is the median of the non-zero whole-day
\* gaps of the group, and intervalType is read off that median.
C22_Original ==
  \A i \in 1..Len(patterns) :
     LET Holds(pattern, gaps) ==
           IF gaps = <<>>
             THEN pattern.intervalDaysMedian = None
                  /\ pattern.intervalType = "unknown"
             ELSE /\ pattern.intervalDaysMedian # None
                  /\ 2 * pattern.intervalDaysMedian[1] = median2(gaps)
                  /\ pattern.intervalType = TypeOfTwice(median2(gaps))
     IN Holds(patterns[i], DayGapsOf(patterns[i]))

\* C22: for every pattern buildHabitPatterns emitted, intervalDaysMedian is
\* the median of the non-zero whole-day gaps between consecutive transactions
\* of the group in date order, rounded to the nearest whole day with a half
\* rounded up (null when there is no such gap), and intervalType is daily
\* when the rounded median is <= 2, weekly when it is 6, 7 or 8, monthly when
\* it is 25 to 35, unknown otherwise and when there is no gap.
C22_RoundedMedian ==
  \A i \in 1..Len(patterns) :
     LET Rounded(m2) == (m2 + 1) \div 2
         Holds(pattern, gaps) ==
           IF gaps = <<>>
             THEN pattern.intervalDaysMedian = None
                  /\ pattern.intervalType = "unknown"
             ELSE /\ pattern.intervalDaysMedian = Some(Rounded(median2(gaps)))
                  /\ pattern.intervalType = TypeOfTwice(2 * Rounded(median2(gaps)))
     IN Holds(patterns[i], DayGapsOf(patterns[i]))

\* a pattern whose gaps have a median of so many days and a half, which as
\* stated is not a weekly one, stored as weekly
C22_Witness ==
  \E i \in 1..Len(patterns) :
     /\ DayGapsOf(patterns[i]) # <<>>
     /\ median2(DayGapsOf(patterns[i])) % 2 = 1
     /\ TypeOfTwice(median2(DayGapsOf(patterns[i]))) = "unknown"
     /\ patterns[i].intervalType = "weekly"

-----------------------------------------------------------------------------
(* What the claims on the due policies speak of                            *)

\* the candidate findDueHabitReminder returned is that of the pattern
ReturnedFor(pattern) == Reminded /\ reminder[1][1].habitId = pattern.habitId

\* the dated transactions that match the pattern, as the instants of their
\* dates in ascending order
MatchInstants(pattern) ==
  LET InstantsOf(found) == SortAsc([k \in 1..Len(found) |-> found[k].date[1]])
  IN InstantsOf(SelectSeq(transactions, LAMBDA t :
                            matchesPattern(t, pattern) /\ t.date # NaN))

EveryMatchDated(pattern) ==
  \A k \in 1..Len(transactions) :
     matchesPattern(transactions[k], pattern) => transactions[k].date # NaN

\* a match is dated in the month of clock or later
MatchedThisMonth(pattern) ==
  \E k \in 1..Len(transactions) :
     /\ matchesPattern(transactions[k], pattern)
     /\ transactions[k].date # NaN
     /\ LET on == toLocalISODate(transactions[k].date[1])
            today == toLocalISODate(clock)
        IN on.y > today.y \/ (on.y = today.y /\ on.m >= today.m)

\* twice the expected day of the month: the median of the days of the month
\* of the last six matches, the 1st under three matches
ExpectedDomTwice(pattern) ==
  LET DomsOf(instants) == [k \in 1..Len(instants) |-> toLocalISODate(instants[k]).d]
      LastSix(instants) ==
        IF Len(instants) < 3 THEN 2
        ELSE median2(DomsOf(SubSeq(instants, Max(1, Len(instants) - 5),
                                   Len(instants))))
  IN LastSix(MatchInstants(pattern))

HasTimeWindow(pattern) ==
  pattern.timeWindowStartMin # None /\ pattern.timeWindowEndMin # None

\* C24: findDueHabitReminder returns the candidate of a daily or unknown
\* pattern only if dowProb of today's weekday is at least 0.6 and the minute
\* of the day lies in [timeWindowStartMin, timeWindowEndMin + 120] when the
\* pattern has a time window, is at or after 18:00 when it has none.
C24_DailyDuePolicy ==
  \A i \in 1..Len(patterns) :
     (ReturnedFor(patterns[i]) /\ patterns[i].intervalType \in {"daily", "unknown"}) =>
       /\ patterns[i].dowProb[((clock \div DayMinutes) % 7) + 1] * 10 >= 6 * ProbScale
       /\ HasTimeWindow(patterns[i]) =>
            /\ patterns[i].timeWindowStartMin[1] <= clock % DayMinutes
            /\ clock % DayMinutes <= patterns[i].timeWindowEndMin[1] + 120
       /\ ~HasTimeWindow(patterns[i]) =>
            /\ patterns[i].timeWindowStartMin = None
            /\ patterns[i].timeWindowEndMin = None
            /\ clock % DayMinutes >= 18 * 60

\* the candidate of a daily pattern was returned in the two hours after the
\* end of its time window
C24_Witness ==
  \E i \in 1..Len(patterns) :
     /\ ReturnedFor(patterns[i])
     /\ patterns[i].intervalType = "daily"
     /\ HasTimeWindow(patterns[i])
     /\ clock % DayMinutes > patterns[i].timeWindowEndMin[1]

-----------------------------------------------------------------------------
(* What the claim on the patterns without a criterion speaks of            *)

\* neither criterion: merchantKey null or empty and amountBucket null
IsDead(pattern) ==
  /\ pattern.merchantKey \in {None, Some(<<>>)}
  /\ pattern.amountBucket = None

\* C25: a pattern with neither criterion matches no transaction and
\* findDueHabitReminder never returns its candidate.
C25_DeadPatternExcluded ==
  \A i \in 1..Len(patterns) :
     IsDead(patterns[i]) =>
       /\ \A k \in 1..Len(transactions) : ~matchesPattern(transactions[k], patterns[i])
       /\ ~ReturnedFor(patterns[i])

\* the half of C25 that the code keeps: a pattern with neither criterion
\* matches no transaction
C25_DeadPatternMatchesNothing ==
  \A i \in 1..Len(patterns) :
     IsDead(patterns[i]) =>
       \A k \in 1..Len(transactions) : ~matchesPattern(transactions[k], patterns[i])

-----------------------------------------------------------------------------
(* What the claim on saveTransaction speaks of                             *)

\* every call of saveTransaction has returned
AllSaved == \A c \in 1..Len(saving) : saving[c].pc = "done"

\* how many records of the stored list carry the id
StoredUnder(id) == Cardinality({k \in 1..Len(stored) : stored[k].id = id})

\* C30: once every call of saveTransaction has returned, however the calls
\* interleaved, the stored list holds under the id of each saved transaction
\* exactly one record, so two overlapping calls with distinct ids both end up
\* in the list.
C30_NoRecordLost ==
  AllSaved => \A c \in 1..Len(saving) : StoredUnder(saving[c].record.id) = 1

\* the part of C30 the code keeps: no id is ever twice in the stored list
C30_OncePerId ==
  \A k, l \in 1..Len(stored) : stored[k].id = stored[l].id => k = l

====
